---- MODULE Spec2Model ----
(***************************************************************************)
(* State-machine model of the crawl-and-persist pipeline                   *)
(* (app/scraper.py), the relational store helpers (app/db/crud.py,         *)
(* app/db/models.py, app/db/session.py) and the "below" ID traversal       *)
(* (app/generation.py, app/generation_text.py).                            *)
(*                                                                         *)
(* Strings that the code parses or formats (folder names, article IDs)     *)
(* are sequences of character codes: the decimal digits are 0..9 and the   *)
(* letters are the codes 10..35 (A = 10, ..., Z = 35), DOT is 36.  Opaque  *)
(* strings (urls, paths, hashes) are TLA+ strings.                         *)
(***************************************************************************)
EXTENDS Integers, Sequences, FiniteSets, TLC

VARIABLES
    \* ---- results directory and one scrape run (app/scraper.py) ----
    dirExists,   \* os.path.isdir(RESULTS_DIR)
    disk,        \* entry name -> entry of RESULTS_DIR
    pc,          \* position of scrape_latest_wp_to_files
    feed,        \* URLs of the normalized posts of the current/last run
    fresh,       \* the rows the run decided to save
    n,           \* the run's index counter
    i,           \* position in fresh
    imgres,      \* outcome of the image step of the current post
    saved,       \* saved_rows of the current/last run
    preRun,      \* RESULTS_DIR as it was when the run started
    written,     \* ID folders the run has written into
    status,      \* how the last run ended
    rerun,       \* the run repeats the feed of a completed previous run
    nruns,       \* number of runs started
    \* ---- relational store and one ORM session (app/db) ----
    sess,        \* "closed" | "open" | "failed"
    assets,      \* committed Asset rows
    txAssets,    \* Asset rows flushed in the open transaction
    texts,       \* committed TextRow rows
    txTexts,     \* TextRow rows flushed in the open transaction
    pendingTexts,\* TextRow objects added to the session, not flushed
    oidCtr,      \* TextRow objects constructed so far
    prev,        \* the previous create_or_get_* call still in effect
    last,        \* the latest create_or_get_* call
    ncalls,      \* number of create_or_get_* calls made
    txArticles,  \* Article objects the session added or changed, unflushed
    \* ---- inputs and result of a pure function under test ----
    arg,
    ret,
    \* ---- generation orchestrators (app/generation*.py) ----
    apiKey,      \* DASHSCOPE_API_KEY is set in the process environment
    articles,    \* committed Article rows: id -> generation flags
    genFiles,    \* files written under <ID>/_gen
    apiCalls,    \* article ids of the requests sent to the external APIs
    clock,       \* time.gmtime() in seconds, names the generated files
    gen,         \* the latest generate_* call and what it met
    batch        \* the batch operation in progress

scrapeVars == <<dirExists, disk, pc, feed, fresh, n, i, imgres, saved,
                preRun, written, status, rerun, nruns>>
storeVars  == <<sess, assets, txAssets, texts, txTexts, pendingTexts, oidCtr,
                prev, last, ncalls, txArticles>>
fnVars     == <<arg, ret>>
genVars    == <<apiKey, articles, genFiles, apiCalls, clock, gen, batch>>
vars       == <<scrapeVars, storeVars, fnVars, genVars>>

(***************************************************************************)
(* Bounds of the model.                                                    *)
(***************************************************************************)
MaxFeed  == 2    \* posts in one fetched feed
MaxRuns  == 2    \* scrape runs in one behaviour
MaxIndexUsed == 3 \* a run starts saving only while its indices stay below
MaxCalls == 3    \* create_or_get_* calls in one behaviour
MaxIdLen == 4    \* characters of a start ID given to _ids_below
MaxCount == 5    \* largest count given to _ids_below
MaxNames == 3    \* directory entries given to _next_index
MaxArticle  == 1 \* largest article index the generation calls are given
MaxApiCalls == 2 \* requests sent to the external APIs in one behaviour
MaxClock    == 1 \* seconds that pass in one behaviour
MaxBodyLen  == 2000 \* characters of the longest body given to _build_prompt
MaxTries    == 3 \* largest max_tries given to backoff_retry_get
MaxBatches  == 1 \* batch calls in one behaviour
MaxAllocIndex == 1001 \* largest index whose ID starts a traversal

(***************************************************************************)
(* Characters and the conversions the code applies to them.                *)
(***************************************************************************)
L   == 21
M   == 22
DOT == 36

IsDigit(c) == c \in 0..9

AllDigits(s) == \A k \in 1..Len(s) : IsDigit(s[k])

RECURSIVE int(_)
int(s) == IF s = <<>> THEN 0
          ELSE 10 * int(SubSeq(s, 1, Len(s) - 1)) + s[Len(s)]

RECURSIVE str(_)
str(k) == IF k < 10 THEN <<k>> ELSE str(k \div 10) \o <<k % 10>>

RECURSIVE zfill(_, _)
zfill(s, w) == IF Len(s) >= w THEN s ELSE zfill(<<0>> \o s, w)

SetMax(S) == CHOOSE x \in S : \A y \in S : y <= x

ID_PREFIX == <<1, 1, L, M>>
ID_PAD    == 3

POSTS_XLSX == <<25, 24, 28, 29, 28, DOT, 33, L, 28, 33>>

\* re.match(rf"^{ID_PREFIX}(\d+)$", name)
IdNameMatch(name) ==
    /\ Len(name) > Len(ID_PREFIX)
    /\ SubSeq(name, 1, Len(ID_PREFIX)) = ID_PREFIX
    /\ AllDigits(SubSeq(name, Len(ID_PREFIX) + 1, Len(name)))

\* m.group(1)
IdNameGroup(name) == SubSeq(name, Len(ID_PREFIX) + 1, Len(name))

_make_id(k) == ID_PREFIX \o zfill(str(k), ID_PAD)

\* the off-by-one slip: returns the largest index instead of the next one
_next_index_NoIncrement(exists, names) ==
    LET idx == {int(IdNameGroup(nm)) : nm \in {x \in names : IdNameMatch(x)}}
    IN  IF exists /\ idx # {} THEN SetMax(idx) ELSE 0

\* the pattern asks for exactly ID_PAD digits, other names are not counted
_next_index_PaddedOnly(exists, names) ==
    LET idx == {int(IdNameGroup(nm)) :
                  nm \in {x \in names : IdNameMatch(x)
                                         /\ Len(IdNameGroup(x)) = ID_PAD}}
        mx  == IF exists THEN SetMax(idx \cup {-1}) ELSE -1
    IN  mx + 1

\* the number of matching entries is taken for the next index
_next_index_Count(exists, names) ==
    IF exists THEN Cardinality({x \in names : IdNameMatch(x)}) ELSE 0

_next_index(exists, names) ==
    LET idx == {int(IdNameGroup(nm)) : nm \in {x \in names : IdNameMatch(x)}}
        mx  == IF exists THEN SetMax(idx \cup {-1}) ELSE -1
    IN  mx + 1

(***************************************************************************)
(* Entries of RESULTS_DIR.                                                 *)
(***************************************************************************)
NoUrl == ""
Urls  == {"a", "b"}
FeedUrls == Urls \cup {NoUrl}      \* item.get("link") or ""

FileEntry ==
    [dir |-> FALSE, txt |-> FALSE, img |-> FALSE, meta |-> "absent",
     url |-> NoUrl, image_saved_path |-> FALSE, image_error |-> FALSE]

EmptyFolder ==
    [dir |-> TRUE, txt |-> FALSE, img |-> FALSE, meta |-> "absent",
     url |-> NoUrl, image_saved_path |-> FALSE, image_error |-> FALSE]

\* a metadata file that json.load reads, with its "url" value
MetaUrls(d) ==
    {d[nm].url : nm \in {x \in DOMAIN d : d[x].dir /\ d[x].meta = "ok"}}

\* looks for a file name that is never written, so nothing is ever seen
_existing_urls_WrongFile(exists, d) == {}

_existing_urls(exists, d) ==
    IF ~exists THEN {} ELSE MetaUrls(d) \ {NoUrl}

\* what crawl_script.py leaves behind for one post: folder 11LM0 (no padding)
LegacyDisk ==
    (ID_PREFIX \o <<0>>) :> [EmptyFolder EXCEPT !.txt = TRUE, !.meta = "ok",
                                                 !.url = "a"]
    @@ POSTS_XLSX :> FileEntry

Put(d, nm, e) == [x \in DOMAIN d \cup {nm} |-> IF x = nm THEN e ELSE d[x]]

(***************************************************************************)
(* scrape_latest_wp_to_files, one step per file-system effect so that a    *)
(* run can stop between two of them.                                       *)
(***************************************************************************)
Feeds == UNION {[1..k -> FeedUrls] : k \in 0..MaxFeed}

\* fresh = [r for r in normalized if r["URL"] and r["URL"] not in seen]
Fresh(f, sn) ==
    LET keep(u) == u # NoUrl /\ u \notin sn IN SelectSeq(f, keep)

ScrapeIdle ==
    /\ dirExists = FALSE /\ disk = <<>> /\ pc = "idle" /\ feed = <<>>
    /\ fresh = <<>> /\ n = 0 /\ i = 0 /\ imgres = "none"
    /\ saved = <<>> /\ preRun = <<>> /\ written = {} /\ status = "none"
    /\ rerun = FALSE /\ nruns = 0

\* no Article object is pending and none is changed
NoArticleWork == [new |-> <<>>, dirty |-> <<>>]

StoreIdle ==
    /\ sess = "closed" /\ assets = {} /\ txAssets = {} /\ texts = {}
    /\ txTexts = {} /\ pendingTexts = <<>> /\ oidCtr = 0
    /\ prev = [op |-> "none"] /\ last = [op |-> "none"] /\ ncalls = 0
    /\ txArticles = NoArticleWork

FnIdle == arg = <<>> /\ ret = <<>>

GenIdle ==
    /\ apiKey = FALSE
    /\ articles = <<>> /\ genFiles = {} /\ apiCalls = <<>> /\ clock = 0
    /\ gen = [op |-> "none"] /\ batch = [op |-> "none"]

\* Path(RESULTS_DIR).mkdir, then fetch_wp_posts raises
FetchFails ==
    /\ pc = "idle" /\ nruns < MaxRuns
    /\ dirExists' = TRUE
    /\ status' = "fetch_failed"
    /\ nruns' = nruns + 1
    /\ feed' = <<>>
    /\ UNCHANGED <<disk, pc, fresh, n, i, imgres, saved, preRun, written,
                   rerun>>
    /\ UNCHANGED <<storeVars, fnVars, genVars>>

\* lines 253-266: nothing fresh, the Excel file is rewritten empty
ScrapeNothingFresh(f) ==
    /\ pc = "idle" /\ nruns < MaxRuns
    /\ Fresh(f, _existing_urls(TRUE, disk)) = <<>>
    /\ dirExists' = TRUE
    /\ feed' = f
    /\ fresh' = <<>>
    /\ preRun' = disk
    /\ written' = {} /\ saved' = <<>>
    /\ rerun' = (status = "ok" /\ f = feed)
    /\ disk' = Put(disk, POSTS_XLSX, FileEntry)
    /\ status' = "ok"
    /\ pc' = "returned"
    /\ nruns' = nruns + 1
    /\ UNCHANGED <<n, i, imgres>>
    /\ UNCHANGED <<storeVars, fnVars, genVars>>

\* lines 253-269: something fresh, the index counter is read from disk
ScrapeBegin(f) ==
    /\ pc = "idle" /\ nruns < MaxRuns
    /\ Fresh(f, _existing_urls(TRUE, disk)) # <<>>
    /\ _next_index(TRUE, DOMAIN disk)
         + Len(Fresh(f, _existing_urls(TRUE, disk))) <= MaxIndexUsed
    /\ dirExists' = TRUE
    /\ feed' = f
    /\ fresh' = Fresh(f, _existing_urls(TRUE, disk))
    /\ preRun' = disk
    /\ written' = {} /\ saved' = <<>>
    /\ rerun' = (status = "ok" /\ f = feed)
    /\ n' = _next_index(TRUE, DOMAIN disk)
    /\ i' = 1
    /\ pc' = "mkdir"
    /\ status' = "running"
    /\ nruns' = nruns + 1
    /\ UNCHANGED <<disk, imgres>>
    /\ UNCHANGED <<storeVars, fnVars, genVars>>

\* _save_post_files line 198: folder.mkdir(parents=True, exist_ok=True)
SaveMkdir ==
    /\ pc = "mkdir"
    /\ disk' = IF _make_id(n) \in DOMAIN disk THEN disk
               ELSE Put(disk, _make_id(n), EmptyFolder)
    /\ written' = written \cup {_make_id(n)}
    /\ pc' = "txt"
    /\ UNCHANGED <<dirExists, feed, fresh, n, i, imgres, saved, preRun,
                   status, rerun, nruns>>
    /\ UNCHANGED <<storeVars, fnVars, genVars>>

\* line 201: the body text file
SaveTxt ==
    /\ pc = "txt"
    /\ disk' = [disk EXCEPT ![_make_id(n)].txt = TRUE]
    /\ pc' = "img"
    /\ UNCHANGED <<dirExists, feed, fresh, n, i, imgres, saved, preRun,
                   written, status, rerun, nruns>>
    /\ UNCHANGED <<storeVars, fnVars, genVars>>

\* lines 204-226: no image URL, image saved, or download/write failed
SaveImg ==
    /\ pc = "img"
    /\ \E r \in {"none", "saved", "error"} :
         /\ imgres' = r
         /\ disk' = IF r = "saved"
                    THEN [disk EXCEPT ![_make_id(n)].img = TRUE]
                    ELSE disk
    /\ pc' = "meta"
    /\ UNCHANGED <<dirExists, feed, fresh, n, i, saved, preRun,
                   written, status, rerun, nruns>>
    /\ UNCHANGED <<storeVars, fnVars, genVars>>

\* the except branch does not reset img_path: the path chosen before the
\* failed write is recorded next to the error
SaveMeta_PathKept ==
    /\ pc = "meta"
    /\ LET id == _make_id(n)
           d1 == [disk EXCEPT ![id].meta = "ok",
                              ![id].url = fresh[i],
                              ![id].image_saved_path = (imgres # "none"),
                              ![id].image_error = (imgres = "error")]
       IN  /\ saved' = Append(saved, [ID |-> id, URL |-> fresh[i]])
           /\ n' = n + 1
           /\ IF i < Len(fresh)
              THEN /\ i' = i + 1
                   /\ pc' = "mkdir"
                   /\ disk' = d1
                   /\ status' = status
              ELSE /\ i' = i
                   /\ pc' = "returned"
                   /\ disk' = Put(d1, POSTS_XLSX, FileEntry)
                   /\ status' = "ok"
    /\ imgres' = "none"
    /\ UNCHANGED <<dirExists, feed, fresh, preRun, written, rerun, nruns>>
    /\ UNCHANGED <<storeVars, fnVars, genVars>>

\* lines 229-249 and the loop step 273-274; after the last row the Excel
\* file is written and the run returns (lines 277-279)
SaveMeta ==
    /\ pc = "meta"
    /\ LET id == _make_id(n)
           d1 == [disk EXCEPT ![id].meta = "ok",
                              ![id].url = fresh[i],
                              ![id].image_saved_path = (imgres = "saved"),
                              ![id].image_error = (imgres = "error")]
       IN  /\ saved' = Append(saved, [ID |-> id, URL |-> fresh[i]])
           /\ n' = n + 1
           /\ IF i < Len(fresh)
              THEN /\ i' = i + 1
                   /\ pc' = "mkdir"
                   /\ disk' = d1
                   /\ status' = status
              ELSE /\ i' = i
                   /\ pc' = "returned"
                   /\ disk' = Put(d1, POSTS_XLSX, FileEntry)
                   /\ status' = "ok"
    /\ imgres' = "none"
    /\ UNCHANGED <<dirExists, feed, fresh, preRun, written, rerun, nruns>>
    /\ UNCHANGED <<storeVars, fnVars, genVars>>

\* the locals of a run are gone once it has returned or the process stopped
LocalsDropped ==
    /\ fresh' = <<>> /\ n' = 0 /\ i' = 0 /\ imgres' = "none"
    /\ saved' = <<>> /\ preRun' = <<>> /\ written' = {} /\ rerun' = FALSE

\* the caller has taken the result (main.py scrape_fragment); the feed the
\* run fetched is remembered to tell a repeated feed
ScrapeReturn ==
    /\ pc = "returned"
    /\ pc' = "idle"
    /\ LocalsDropped
    /\ UNCHANGED <<dirExists, disk, feed, status, nruns>>
    /\ UNCHANGED <<storeVars, fnVars, genVars>>

\* the process stops between two file-system effects of a run
Crash ==
    /\ pc \in {"mkdir", "txt", "img", "meta"}
    /\ pc' = "idle"
    /\ status' = "crashed"
    /\ LocalsDropped
    /\ feed' = <<>>
    /\ UNCHANGED <<dirExists, disk, nruns>>
    /\ UNCHANGED <<storeVars, fnVars, genVars>>

\* the process stops inside the metadata write_text: a truncated JSON file
CrashInMetaWrite ==
    /\ pc = "meta"
    /\ disk' = [disk EXCEPT ![_make_id(n)].meta = "corrupt"]
    /\ pc' = "idle"
    /\ status' = "crashed"
    /\ LocalsDropped
    /\ feed' = <<>>
    /\ UNCHANGED <<dirExists, nruns>>
    /\ UNCHANGED <<storeVars, fnVars, genVars>>

InitScrape ==
    /\ ScrapeIdle /\ StoreIdle /\ FnIdle /\ GenIdle

\* the results directory as the repository's older crawl_script.py left it
InitScrapeLegacy ==
    /\ dirExists = TRUE /\ disk = LegacyDisk /\ pc = "idle" /\ feed = <<>>
    /\ fresh = <<>> /\ n = 0 /\ i = 0 /\ imgres = "none"
    /\ saved = <<>> /\ preRun = <<>> /\ written = {} /\ status = "none"
    /\ rerun = FALSE /\ nruns = 0
    /\ StoreIdle /\ FnIdle /\ GenIdle

NextScrape ==
    \/ FetchFails
    \/ \E f \in Feeds : ScrapeNothingFresh(f)
    \/ \E f \in Feeds : ScrapeBegin(f)
    \/ SaveMkdir
    \/ SaveTxt
    \/ SaveImg
    \/ SaveMeta
    \/ ScrapeReturn
    \/ Crash
    \/ CrashInMetaWrite

SpecScrape == (InitScrape \/ InitScrapeLegacy) /\ [][NextScrape]_vars

(***************************************************************************)
(* Properties of the scrape run.                                           *)
(***************************************************************************)
IndexOf(name) == int(IdNameGroup(name))

IdFolders(d) == {nm \in DOMAIN d : IdNameMatch(nm)}

\* largest index present in a directory, -1 when there is none
MaxIndex(d) == SetMax({IndexOf(nm) : nm \in IdFolders(d)} \cup {-1})

\* some metadata file of the directory records the url
Recorded(d, u) == \E nm \in DOMAIN d : d[nm].meta = "ok" /\ d[nm].url = u

UnrecordedPosts(f, d) ==
    LET keep(u) == ~Recorded(d, u) IN SelectSeq(f, keep)

UnrecordedLinkedPosts(f, d) ==
    LET keep(u) == u # NoUrl /\ ~Recorded(d, u) IN SelectSeq(f, keep)

IdsWellAllocated ==
    /\ \A k \in 1..Len(saved) :
         /\ IdNameMatch(saved[k].ID)
         /\ IndexOf(saved[k].ID) > MaxIndex(preRun)
    /\ \A j, k \in 1..Len(saved) :
         j < k => /\ saved[j].ID # saved[k].ID
                  /\ IndexOf(saved[j].ID) < IndexOf(saved[k].ID)

\* C1 as stated: every fetched post whose URL is not recorded in persisted
\* metadata, a post without a link included, gets its own ID, the IDs of the
\* batch are pairwise distinct, increase in feed order and lie above the
\* largest index present before the run.
C1_EveryUnrecordedPostGetsId ==
    pc = "returned" =>
        /\ Len(saved) = Len(UnrecordedPosts(feed, preRun))
        /\ \A k \in 1..Len(saved) :
             saved[k].URL = UnrecordedPosts(feed, preRun)[k]
        /\ IdsWellAllocated

\* C1 amended: every fetched post with a non-empty URL that is not recorded
\* in persisted metadata gets its own ID; the IDs of one batch are pairwise
\* distinct, are assigned in feed order with increasing indices, and each
\* index is strictly greater than the largest index present before the run.
C1_LinkedUnrecordedPostsGetIds ==
    /\ pc # "idle" =>
         /\ Len(saved) <= Len(UnrecordedLinkedPosts(feed, preRun))
         /\ \A k \in 1..Len(saved) :
              saved[k].URL = UnrecordedLinkedPosts(feed, preRun)[k]
         /\ IdsWellAllocated
    /\ pc = "returned" =>
         Len(saved) = Len(UnrecordedLinkedPosts(feed, preRun))

C1_Witness ==
    /\ pc = "returned"
    /\ Len(saved) = 2
    /\ saved[1].URL # saved[2].URL
    /\ MaxIndex(preRun) >= 0

\* C2: a run that repeats the feed of the completed run before it saves
\* nothing: its list of saved rows is empty and the ID folders on disk are
\* those that were there when it started.
C2_RerunSavesNothing ==
    rerun =>
        /\ saved = <<>>
        /\ written = {}
        /\ pc = "returned"
        /\ IdFolders(disk) = IdFolders(preRun)
        /\ \A nm \in IdFolders(disk) : disk[nm] = preRun[nm]

C2_Witness ==
    /\ rerun
    /\ pc = "returned"
    /\ Len(feed) = 2
    /\ feed[1] # NoUrl /\ feed[2] # NoUrl /\ feed[1] # feed[2]
    /\ \A k \in 1..2 : Recorded(disk, feed[k])

\* C3: no two ID folders hold metadata recording the same url.
C3_UrlUniqueOnDisk ==
    \A a, b \in DOMAIN disk :
        (a # b /\ disk[a].meta = "ok" /\ disk[b].meta = "ok")
            => disk[a].url # disk[b].url

\* C4: no run writes into an ID folder that existed before the run started,
\* also when an earlier run stopped part-way through saving an article, and
\* the folders a run writes carry the indices that follow the highest index
\* present on disk when it started.
C4_NeverWritesOldFolder ==
    /\ written \cap DOMAIN preRun = {}
    /\ \A id \in written : IdNameMatch(id)
    /\ {IndexOf(id) : id \in written}
         = (MaxIndex(preRun) + 1)..(MaxIndex(preRun) + Cardinality(written))

\* a run writing folders while a folder left without readable metadata by a
\* stopped run is on disk
C4_Witness ==
    /\ written # {}
    /\ \E nm \in IdFolders(preRun) : preRun[nm].meta # "ok"
    /\ \E nm \in IdFolders(preRun) : preRun[nm].meta = "ok"

\* C15: a failed image download or write does not stop _save_post_files:
\* the step that writes the metadata follows, the body text file is there,
\* the row is returned, and the metadata has image_saved_path null and
\* image_error set; after a saved image it has the path and no error, without
\* an image URL it has neither, and no metadata ever has both.
C15_ImageFailureNotFatal ==
    /\ [][(pc = "meta" /\ pc' # "idle") =>
            LET id == _make_id(n)
            IN  /\ disk'[id].txt
                /\ disk'[id].meta = "ok"
                /\ disk'[id].image_error = (imgres = "error")
                /\ disk'[id].image_saved_path = (imgres = "saved")
                /\ Len(saved') = Len(saved) + 1
                /\ saved'[Len(saved')].ID = id]_vars
    /\ [](\A nm \in IdFolders(disk) :
            disk[nm].meta = "ok" =>
                /\ ~(disk[nm].image_saved_path /\ disk[nm].image_error)
                /\ disk[nm].txt)

\* a run that returned after the image of one of its posts failed and the
\* image of another was saved
C15_Witness ==
    /\ pc = "returned"
    /\ \E k \in 1..Len(saved) :
          /\ disk[saved[k].ID].image_error
          /\ ~disk[saved[k].ID].image_saved_path
          /\ ~disk[saved[k].ID].img
          /\ disk[saved[k].ID].txt
          /\ disk[saved[k].ID].meta = "ok"
    /\ \E k \in 1..Len(saved) : disk[saved[k].ID].image_saved_path

(***************************************************************************)
(* _next_index and _existing_urls applied to arbitrary directory listings. *)
(***************************************************************************)
\* entry names a results directory may hold: padded and unpadded IDs, an ID
\* with a longer suffix, the bare prefix, a non-digit suffix, a name that
\* contains the prefix but does not start with it, and the Excel file
ListingNames ==
    { ID_PREFIX \o <<0, 0, 0>>,
      ID_PREFIX \o <<0, 0, 2>>,
      ID_PREFIX \o <<5>>,
      ID_PREFIX \o <<0, 0, 0, 7>>,
      ID_PREFIX,
      ID_PREFIX \o <<0, 1, 33>>,
      <<33>> \o ID_PREFIX \o <<0, 0, 9>>,
      POSTS_XLSX }

ListingEntries ==
    { FileEntry,
      EmptyFolder,
      [EmptyFolder EXCEPT !.txt = TRUE, !.meta = "corrupt"],
      [EmptyFolder EXCEPT !.txt = TRUE, !.meta = "ok", !.url = "a"],
      [EmptyFolder EXCEPT !.txt = TRUE, !.meta = "ok", !.url = "b"] }

Listings ==
    UNION {[S -> ListingEntries] :
             S \in {T \in SUBSET ListingNames : Cardinality(T) <= MaxNames}}

InitListing ==
    /\ \/ dirExists = FALSE /\ disk = <<>>
       \/ dirExists = TRUE /\ disk \in Listings
    /\ pc = "idle" /\ feed = <<>> /\ fresh = <<>> /\ n = 0 /\ i = 0
    /\ imgres = "none" /\ saved = <<>> /\ preRun = <<>> /\ written = {}
    /\ status = "none" /\ rerun = FALSE /\ nruns = 0
    /\ StoreIdle /\ FnIdle /\ GenIdle

CallNextIndex ==
    /\ ret = <<>>
    /\ arg' = "_next_index"
    /\ ret' = <<_next_index(dirExists, DOMAIN disk)>>
    /\ UNCHANGED <<scrapeVars, storeVars, genVars>>

CallExistingUrls ==
    /\ ret = <<>>
    /\ arg' = "_existing_urls"
    /\ ret' = <<_existing_urls(dirExists, disk)>>
    /\ UNCHANGED <<scrapeVars, storeVars, genVars>>

NextListing == CallNextIndex \/ CallExistingUrls

SpecListing == InitListing /\ [][NextListing]_vars

\* C5: _next_index returns 1 plus the largest numeric suffix among the entries
\* named prefix+digits, so an index below the largest one is never handed out
\* again; it returns 0 when the directory does not exist or has no such
\* entry; _existing_urls returns the empty set when the directory does not
\* exist.
C5_NextIndexIsMaxPlusOne ==
    /\ arg = "_next_index" =>
         /\ \A nm \in IdFolders(disk) : IndexOf(nm) < ret[1]
         /\ (~dirExists \/ IdFolders(disk) = {}) => ret[1] = 0
         /\ (dirExists /\ IdFolders(disk) # {}) =>
               \E nm \in IdFolders(disk) : IndexOf(nm) = ret[1] - 1
         /\ _make_id(ret[1]) \notin DOMAIN disk
    /\ (arg = "_existing_urls" /\ ~dirExists) => ret[1] = {}

\* a listing with a gap in its numbering: the result lies above the gap
C5_Witness ==
    /\ arg = "_next_index"
    /\ ret[1] >= 3
    /\ \E k \in 0..(ret[1] - 2) : \A nm \in IdFolders(disk) : IndexOf(nm) # k
    /\ Cardinality(IdFolders(disk)) >= 2

(***************************************************************************)
(* The relational store seen through one ORM session at a time.            *)
(* SessionLocal has autoflush=False: a query sees the committed rows and   *)
(* the rows flushed in the open transaction, never the pending objects.    *)
(***************************************************************************)
Articles   == {"A", "B"}
AssetKinds == {"original_image", "generated_image"}
TextKinds  == {"original_text", "generated_text_from_image"}
Paths      == {"p", "q"}
NoneSha    == "NULL"
Shas       == {NoneSha, "", "h1", "h2"}

\* Python truth value of the sha256 argument (line 86: if sha256)
Truthy(sha) == sha \notin {NoneSha, ""}

RowKey(r) == <<r.article_id, r.kind, r.path>>

\* autoincrement primary key of the assets table
NextAssetId(rows) == SetMax({r.id : r \in rows} \cup {0}) + 1

\* the unique index on assets.sha256 is missing from the schema
Sha256UniqueViolated_NoIndex(rows, sha) == FALSE

\* unique=True on assets.sha256; NULLs do not collide
Sha256UniqueViolated(rows, sha) ==
    sha # NoneSha /\ \E r \in rows : r.sha256 = sha

FirstRow(S) == CHOOSE r \in S : \A q \in S : r.id <= q.id

\* the (article_id, kind, path) lookup is skipped, every call inserts
create_or_get_asset_NoKeyLookup(rows, a, k, p, sha) ==
    LET byHash == {r \in rows : r.sha256 = sha}
        new    == [id |-> NextAssetId(rows), article_id |-> a, kind |-> k,
                   path |-> p, sha256 |-> sha]
    IN  IF Truthy(sha) /\ byHash # {}
        THEN IF FirstRow(byHash).article_id # a
             THEN [outcome |-> "ValueError", id |-> 0, rows |-> rows]
             ELSE [outcome |-> "byhash", id |-> FirstRow(byHash).id,
                   rows |-> rows]
        ELSE IF Sha256UniqueViolated(rows, sha)
             THEN [outcome |-> "IntegrityError", id |-> 0, rows |-> rows]
             ELSE [outcome |-> "inserted", id |-> new.id,
                   rows |-> rows \cup {new}]

\* the owner of the row found by hash is not compared with article_id
create_or_get_asset_AnyOwner(rows, a, k, p, sha) ==
    LET byKey  == {r \in rows : r.article_id = a /\ r.kind = k /\ r.path = p}
        byHash == {r \in rows : r.sha256 = sha}
        new    == [id |-> NextAssetId(rows), article_id |-> a, kind |-> k,
                   path |-> p, sha256 |-> sha]
    IN  IF byKey # {}
        THEN [outcome |-> "found", id |-> FirstRow(byKey).id, rows |-> rows]
        ELSE IF Truthy(sha) /\ byHash # {}
        THEN [outcome |-> "byhash", id |-> FirstRow(byHash).id, rows |-> rows]
        ELSE IF Sha256UniqueViolated(rows, sha)
             THEN [outcome |-> "IntegrityError", id |-> 0, rows |-> rows]
             ELSE [outcome |-> "inserted", id |-> new.id,
                   rows |-> rows \cup {new}]

\* crud.py create_or_get_asset over the rows the session's queries see.
\* mime, width, height, data and size_bytes are copied into the new row and
\* never read, so they are left out of the rows.
create_or_get_asset(rows, a, k, p, sha) ==
    LET byKey  == {r \in rows : r.article_id = a /\ r.kind = k /\ r.path = p}
        byHash == {r \in rows : r.sha256 = sha}
        new    == [id |-> NextAssetId(rows), article_id |-> a, kind |-> k,
                   path |-> p, sha256 |-> sha]
    IN  IF byKey # {}
        THEN [outcome |-> "found", id |-> FirstRow(byKey).id, rows |-> rows]
        ELSE IF Truthy(sha) /\ byHash # {}
        THEN IF FirstRow(byHash).article_id # a
             THEN [outcome |-> "ValueError", id |-> 0, rows |-> rows]
             ELSE [outcome |-> "byhash", id |-> FirstRow(byHash).id,
                   rows |-> rows]
        ELSE IF Sha256UniqueViolated(rows, sha)
             THEN [outcome |-> "IntegrityError", id |-> 0, rows |-> rows]
             ELSE [outcome |-> "inserted", id |-> new.id,
                   rows |-> rows \cup {new}]

\* crud.py create_or_get_text; the new TextRow is only added, not flushed
create_or_get_text(rows, a, k, p, newOid) ==
    LET byKey == {r \in rows : r.article_id = a /\ r.kind = k /\ r.path = p}
        first == CHOOSE r \in byKey : \A q \in byKey : r.oid <= q.oid
    IN  IF byKey # {}
        THEN [outcome |-> "found", row |-> first]
        ELSE [outcome |-> "added",
              row |-> [oid |-> newOid, article_id |-> a, kind |-> k,
                       path |-> p]]

SeqRange(sq) == {sq[k] : k \in 1..Len(sq)}

NoCall == [op |-> "none"]

\* what is remembered of the call before the latest one
Brief(c) ==
    IF c.op = "asset"
    THEN [op |-> "asset", key |-> c.key, sha |-> c.sha,
          outcome |-> c.outcome, id |-> c.id]
    ELSE c

OpenSession ==
    /\ sess = "closed"
    /\ sess' = "open"
    /\ UNCHANGED <<assets, txAssets, texts, txTexts, pendingTexts, oidCtr,
                   prev, last, ncalls>>
    /\ UNCHANGED txArticles
    /\ UNCHANGED <<scrapeVars, fnVars, genVars>>

CallCreateOrGetAsset(a, k, p, sha) ==
    /\ sess = "open" /\ ncalls < MaxCalls
    /\ LET rows == assets \cup txAssets
           res  == create_or_get_asset(rows, a, k, p, sha)
       IN  /\ last' = [op |-> "asset", key |-> <<a, k, p>>, sha |-> sha,
                       outcome |-> res.outcome, id |-> res.id,
                       keyPresent |-> (\E r \in rows : RowKey(r) = <<a, k, p>>),
                       hashOwners |-> {r.article_id : r \in
                                         {x \in rows : x.sha256 = sha}},
                       hashIds |-> {r.id : r \in
                                         {x \in rows : x.sha256 = sha}},
                       added |-> (res.rows # rows)]
           /\ IF res.outcome = "IntegrityError"
              THEN \* the failed flush rolls the transaction back
                   /\ txAssets' = {} /\ txTexts' = {} /\ pendingTexts' = <<>>
                   /\ sess' = "failed"
                   /\ prev' = NoCall
              ELSE /\ txAssets' = res.rows \ assets
                   /\ IF res.outcome = "inserted"
                      THEN \* db.flush() writes every pending object
                           /\ txTexts' = txTexts \cup SeqRange(pendingTexts)
                           /\ pendingTexts' = <<>>
                      ELSE UNCHANGED <<txTexts, pendingTexts>>
                   /\ sess' = sess
                   /\ prev' = Brief(last)
    /\ ncalls' = ncalls + 1
    /\ UNCHANGED txArticles
    /\ UNCHANGED <<assets, texts, oidCtr>>
    /\ UNCHANGED <<scrapeVars, fnVars, genVars>>

CallCreateOrGetText(a, k, p) ==
    /\ sess = "open" /\ ncalls < MaxCalls
    /\ LET res == create_or_get_text(texts \cup txTexts, a, k, p, oidCtr + 1)
       IN  /\ last' = [op |-> "text", key |-> <<a, k, p>>,
                       outcome |-> res.outcome, oid |-> res.row.oid,
                       unflushed |-> (pendingTexts # <<>>)]
           /\ IF res.outcome = "added"
              THEN /\ pendingTexts' = Append(pendingTexts, res.row)
                   /\ oidCtr' = oidCtr + 1
              ELSE UNCHANGED <<pendingTexts, oidCtr>>
    /\ prev' = Brief(last)
    /\ ncalls' = ncalls + 1
    /\ UNCHANGED txArticles
    /\ UNCHANGED <<sess, assets, txAssets, texts, txTexts>>
    /\ UNCHANGED <<scrapeVars, fnVars, genVars>>

\* db.commit() / leaving "with db.begin()": flush, then commit
Commit ==
    /\ sess = "open"
    /\ assets' = assets \cup txAssets
    /\ texts' = texts \cup txTexts \cup SeqRange(pendingTexts)
    /\ txAssets' = {} /\ txTexts' = {} /\ pendingTexts' = <<>>
    /\ UNCHANGED <<sess, oidCtr, prev, last, ncalls>>
    /\ UNCHANGED txArticles
    /\ UNCHANGED <<scrapeVars, fnVars, genVars>>

\* leaving "with SessionLocal() as db": what was not committed is dropped
CloseSession ==
    /\ sess \in {"open", "failed"}
    /\ sess' = "closed"
    /\ txAssets' = {} /\ txTexts' = {} /\ pendingTexts' = <<>>
    /\ IF txAssets # {} \/ txTexts # {} \/ pendingTexts # <<>>
       THEN prev' = NoCall /\ last' = NoCall
       ELSE UNCHANGED <<prev, last>>
    /\ UNCHANGED <<assets, texts, oidCtr, ncalls>>
    /\ UNCHANGED txArticles
    /\ UNCHANGED <<scrapeVars, fnVars, genVars>>

InitStore == ScrapeIdle /\ StoreIdle /\ FnIdle /\ GenIdle

\* create_or_get_asset calls in sessions that are committed or dropped
NextAssets ==
    \/ OpenSession
    \/ \E a \in Articles, k \in AssetKinds, p \in Paths, sha \in Shas :
          CallCreateOrGetAsset(a, k, p, sha)
    \/ Commit
    \/ CloseSession

SpecAssets == InitStore /\ [][NextAssets]_vars

\* create_or_get_text calls in sessions that are committed or dropped
NextTexts ==
    \/ OpenSession
    \/ \E a \in Articles, k \in TextKinds, p \in Paths :
          CallCreateOrGetText(a, k, p)
    \/ Commit
    \/ CloseSession

SpecTexts == InitStore /\ [][NextTexts]_vars

(***************************************************************************)
(* Properties of create_or_get_asset and create_or_get_text.               *)
(***************************************************************************)
Returned == {"found", "byhash", "inserted", "added"}

AssetRows == assets \cup txAssets

RowsWithKey(rows, key) == {r \in rows : RowKey(r) = key}

\* TextRow objects with the key, in the store or pending in the session
TextRowsWithKey(key) ==
    Cardinality(RowsWithKey(texts \cup txTexts, key))
    + Cardinality({k \in 1..Len(pendingTexts) : RowKey(pendingTexts[k]) = key})

\* C6 as stated: two consecutive create_or_get_asset calls with the same
\* (article_id, kind, path) return the same row id and leave exactly one
\* Asset row with that key, whatever the sha256 of the second call is.
C6_AssetTwiceSameId ==
    (/\ prev.op = "asset" /\ last.op = "asset"
     /\ prev.key = last.key
     /\ prev.outcome \in Returned)
    => /\ last.outcome \in Returned
       /\ last.id = prev.id
       /\ Cardinality(RowsWithKey(AssetRows, last.key)) = 1

\* C6 amended: when the first call returned the row with that key (it found
\* it or inserted it, and did not return another row through the sha256
\* match), the second call with the same (article_id, kind, path) returns
\* the same row id and exactly one Asset row has that key, whatever the
\* sha256 of the second call is.
C6_AssetTwiceSameIdAfterKeyRow ==
    (/\ prev.op = "asset" /\ last.op = "asset"
     /\ prev.key = last.key
     /\ prev.outcome \in {"found", "inserted"})
    => /\ last.outcome = "found"
       /\ last.id = prev.id
       /\ Cardinality(RowsWithKey(AssetRows, last.key)) = 1

\* the second call carries a sha256 bound to another article's asset
C6_Witness ==
    /\ prev.op = "asset" /\ last.op = "asset"
    /\ prev.key = last.key
    /\ prev.outcome = "inserted"
    /\ last.outcome = "found"
    /\ last.sha # prev.sha
    /\ Truthy(last.sha)
    /\ last.hashOwners # {}
    /\ last.key[1] \notin last.hashOwners

\* C7: two consecutive create_or_get_text calls with the same
\* (article_id, kind, path) return the same row and leave exactly one TextRow
\* with that key, in one session without a flush between them as well as in
\* two committed sessions.
C7_TextTwiceSameRow ==
    (/\ prev.op = "text" /\ last.op = "text"
     /\ prev.key = last.key)
    => /\ last.oid = prev.oid
       /\ TextRowsWithKey(last.key) = 1

\* C8 as stated: a call whose sha256 matches an existing Asset of another
\* article fails with a conflict error and adds no row; a call whose sha256
\* matches an existing Asset of the same article returns that row's id and
\* adds no row.
C8_HashMatchOutcome ==
    (/\ last.op = "asset"
     /\ Truthy(last.sha)
     /\ last.hashOwners # {})
    => IF last.key[1] \notin last.hashOwners
       THEN /\ last.outcome = "ValueError"
            /\ ~last.added
       ELSE /\ last.outcome \in Returned
            /\ last.id \in last.hashIds
            /\ ~last.added

\* C8 amended: when no Asset row with the call's (article_id, kind, path)
\* exists, a call with a sha256 that matches an existing Asset of another
\* article fails with the conflict ValueError and adds no row, and
\* one that matches an existing Asset of the same article returns that
\* row's id and adds no row.
C8_HashMatchOutcomeNoKeyRow ==
    (/\ last.op = "asset"
     /\ Truthy(last.sha)
     /\ last.hashOwners # {}
     /\ ~last.keyPresent)
    => IF last.key[1] \notin last.hashOwners
       THEN /\ last.outcome = "ValueError"
            /\ ~last.added
       ELSE /\ last.outcome = "byhash"
            /\ last.id \in last.hashIds
            /\ ~last.added

\* a same-article match followed by a different-article conflict
C8_Witness ==
    /\ prev.op = "asset" /\ last.op = "asset"
    /\ prev.outcome = "byhash"
    /\ last.outcome = "ValueError"
    /\ ~last.keyPresent
    /\ last.sha = prev.sha

\* C9: no two Asset rows carry the same non-null sha256.
C9_Sha256Unique ==
    \A r1, r2 \in AssetRows :
        (r1 # r2 /\ r1.sha256 = r2.sha256) => r1.sha256 = NoneSha

\* two assets with different hashes after a call that failed
C9_Witness ==
    /\ last.op = "asset"
    /\ last.outcome \in {"ValueError", "IntegrityError"}
    /\ \E r1, r2 \in AssetRows :
          /\ r1.sha256 # r2.sha256
          /\ r1.sha256 # NoneSha /\ r2.sha256 # NoneSha

(***************************************************************************)
(* The "below" traversal of article IDs (generation.py and                 *)
(* generation_text.py carry the same two functions).                       *)
(***************************************************************************)
\* number of characters of the longest all-digit suffix: group 2 of
\* ^(.*?)(\d+)$ , the lazy prefix leaves every trailing digit to the group
RECURSIVE TrailingDigits(_)
TrailingDigits(s) ==
    IF s = <<>> \/ ~IsDigit(s[Len(s)]) THEN 0
    ELSE 1 + TrailingDigits(SubSeq(s, 1, Len(s) - 1))

\* generation.py: (prefix, number, zero-padding width), ("", -1, 0) on no match
_parse_article_id(article_id) ==
    LET w == TrailingDigits(article_id)
        num_str == SubSeq(article_id, Len(article_id) - w + 1, Len(article_id))
    IN  IF w = 0 THEN [prefix |-> <<>>, num |-> -1, width |-> 0]
        ELSE [prefix |-> SubSeq(article_id, 1, Len(article_id) - w),
              num |-> int(num_str), width |-> Len(num_str)]

\* the width of the start ID is dropped: str(num - k) without zfill
_ids_below_NoPad(start_id, count) ==
    LET pa == _parse_article_id(start_id)
        keep(k) == pa.num - k >= 0
        ks == SelectSeq([k \in 1..count |-> k], keep)
    IN  IF pa.num < 0 THEN <<>>
        ELSE [j \in 1..Len(ks) |-> pa.prefix \o str(pa.num - ks[j])]

\* generation.py _ids_below
_ids_below(start_id, count) ==
    LET pa == _parse_article_id(start_id)
        keep(k) == pa.num - k >= 0
        ks == SelectSeq([k \in 1..count |-> k], keep)
    IN  IF pa.num < 0 THEN <<>>
        ELSE [j \in 1..Len(ks) |->
                pa.prefix \o zfill(str(pa.num - ks[j]), pa.width)]

\* generation_text.py _parse_article_id
_parse_article_id_text(article_id) ==
    LET w == TrailingDigits(article_id)
        num_str == SubSeq(article_id, Len(article_id) - w + 1, Len(article_id))
    IN  IF w = 0 THEN [prefix |-> <<>>, num |-> -1, width |-> 0]
        ELSE [prefix |-> SubSeq(article_id, 1, Len(article_id) - w),
              num |-> int(num_str), width |-> Len(num_str)]

\* generation_text.py _ids_below
_ids_below_text(start_id, count) ==
    LET pa == _parse_article_id_text(start_id)
        keep(k) == pa.num - k >= 0
        ks == SelectSeq([k \in 1..count |-> k], keep)
    IN  IF pa.num < 0 THEN <<>>
        ELSE [j \in 1..Len(ks) |->
                pa.prefix \o zfill(str(pa.num - ks[j]), pa.width)]

IdChars == {0, 1, 9, L}

StartIds ==
    UNION {[1..k -> IdChars] : k \in 0..MaxIdLen}
    \cup {ID_PREFIX \o <<0, 9, 9>>, ID_PREFIX \o <<0, 0, 3>>}

Counts == (-1)..MaxCount

InitIds ==
    /\ arg \in [start_id : StartIds, count : Counts]
    /\ ret = [genDone |-> FALSE, gen |-> <<>>,
              textDone |-> FALSE, text |-> <<>>]
    /\ ScrapeIdle /\ StoreIdle /\ GenIdle

CallIdsBelow ==
    /\ ~ret.genDone
    /\ ret' = [ret EXCEPT !.genDone = TRUE,
                          !.gen = _ids_below(arg.start_id, arg.count)]
    /\ UNCHANGED <<arg, scrapeVars, storeVars, genVars>>

CallIdsBelowText ==
    /\ ~ret.textDone
    /\ ret' = [ret EXCEPT !.textDone = TRUE,
                          !.text = _ids_below_text(arg.start_id, arg.count)]
    /\ UNCHANGED <<arg, scrapeVars, storeVars, genVars>>

NextIds == CallIdsBelow \/ CallIdsBelowText

SpecIds == InitIds /\ [][NextIds]_vars

HasNumericSuffix(s) == s # <<>> /\ IsDigit(s[Len(s)])

Min(a, b) == IF a < b THEN a ELSE b

\* the list holds, in descending order, the IDs below start_id: the j-th has
\* the characters of start_id up to its digit suffix, and a digit suffix of
\* the same length whose value is the start's minus j
IsBelowList(lst, start_id, count) ==
    LET w  == TrailingDigits(start_id)
        pl == Len(start_id) - w
        nn == int(SubSeq(start_id, pl + 1, Len(start_id)))
    IN  IF ~HasNumericSuffix(start_id) THEN lst = <<>>
        ELSE /\ Len(lst) = Min(IF count > 0 THEN count ELSE 0, nn)
             /\ \A j \in 1..Len(lst) :
                  /\ Len(lst[j]) = Len(start_id)
                  /\ SubSeq(lst[j], 1, pl) = SubSeq(start_id, 1, pl)
                  /\ AllDigits(SubSeq(lst[j], pl + 1, Len(lst[j])))
                  /\ int(SubSeq(lst[j], pl + 1, Len(lst[j]))) = nn - j

\* C10: for a start ID with numeric suffix n written with w digits and a
\* count c, _ids_below of both generation modules returns the IDs with the
\* suffixes n-1, n-2, ... in descending order, same prefix, zero-padded to
\* width w, min(max(c,0), n) of them, and nothing when the start ID has no
\* numeric suffix.
C10_IdsBelow ==
    /\ ret.genDone => IsBelowList(ret.gen, arg.start_id, arg.count)
    /\ ret.textDone => IsBelowList(ret.text, arg.start_id, arg.count)

\* ("11LM099", 5) gives 11LM098 .. 11LM094 in both modules
C10_Witness ==
    /\ arg = [start_id |-> ID_PREFIX \o <<0, 9, 9>>, count |-> 5]
    /\ ret.genDone /\ ret.textDone
    /\ ret.gen = << ID_PREFIX \o <<0, 9, 8>>, ID_PREFIX \o <<0, 9, 7>>,
                    ID_PREFIX \o <<0, 9, 6>>, ID_PREFIX \o <<0, 9, 5>>,
                    ID_PREFIX \o <<0, 9, 4>> >>
    /\ ret.text = ret.gen

(***************************************************************************)
(* Text-to-image generation (app/generation.py).  The articles table has   *)
(* the has_image_generated / has_text_generated columns of the migration   *)
(* 8b482363487c.  One step per effect on the store, so that the            *)
(* transaction of lines 150-163 can fail or stop between its parts.        *)
(***************************************************************************)
GenIds == {_make_id(k) : k \in 0..MaxArticle}

GenShas == {"h1", "h2"}

NoFlags == [has_image_generated |-> FALSE, has_text_generated |-> FALSE]

\* what the environment does to one generate_t2i_for_article call that has
\* the API key (line 24 reads it once, when the module is loaded)
\* api_error: the request fails, answers with an error status or an unexpected
\* shape, or the download fails (lines 117-145 raise, nothing is written);
\* bad_image: the downloaded bytes are saved but PIL cannot open them
T2IFates == {"api_error", "bad_image", "meta_write_fails", "ok"}

\* out_dir / f"{MODEL_NAME}@{ts}.png" and the sidecar next to it
GenPath(aid, dir, ts, ext) == <<aid, dir, ts, ext>>

GenDone ==
    IF gen.op = "none" THEN TRUE
    ELSE gen.stage \in {"skipped", "raised", "done", "crashed"}

\* lines 92-98: the fast path, read in a session of its own
T2ISkips(aid, force) ==
    /\ ~force
    /\ aid \in DOMAIN articles
    /\ articles[aid].has_image_generated

\* article ids for which a generate_* call of the kind has returned a result
DoneIds(op) ==
    IF gen.op # op THEN {}
    ELSE gen.doneBefore \cup (IF gen.stage = "done" THEN {gen.aid} ELSE {})

\* the record kept of a generate_* call: its arguments, where it stands,
\* and the committed store as it was when the call began
GenCall(op, aid, force, stage, at, sha, path) ==
    [op |-> op, aid |-> aid, force |-> force, stage |-> stage, at |-> at,
     sha |-> sha, path |-> path, committed |-> FALSE,
     doneBefore |-> DoneIds(op),
     preAssets |-> assets, preTexts |-> texts, preArticles |-> articles,
     preFiles |-> genFiles, preCalls |-> Len(apiCalls)]

\* the force=False check is left out
T2IBody_NoSkip(aid, force, fate, sha, ts) ==
    /\ clock' = ts
    /\ IF ~apiKey
       THEN /\ gen' = GenCall("t2i", aid, force, "raised", "no_key", NoneSha,
                              <<>>)
            /\ UNCHANGED <<apiCalls, genFiles>>
       ELSE /\ apiCalls' = Append(apiCalls, aid)
            /\ IF fate = "api_error"
               THEN /\ genFiles' = genFiles
                    /\ gen' = GenCall("t2i", aid, force, "raised", fate,
                                      NoneSha, <<>>)
               ELSE /\ genFiles' = genFiles \cup
                          {GenPath(aid, "text_to_image", ts, "png")}
                    /\ gen' = GenCall("t2i", aid, force,
                          IF fate = "bad_image" THEN "raised" ELSE "db",
                          fate, IF fate = "bad_image" THEN NoneSha ELSE sha,
                          GenPath(aid, "text_to_image", ts, "png"))

\* the output file is created before the response is examined
T2IBody_FileBeforeResponse(aid, force, fate, sha, ts) ==
    /\ clock' = ts
    /\ IF ~apiKey
       THEN /\ gen' = GenCall("t2i", aid, force, "raised", "no_key", NoneSha,
                              <<>>)
            /\ UNCHANGED <<apiCalls, genFiles>>
       ELSE IF T2ISkips(aid, force)
       THEN /\ gen' = GenCall("t2i", aid, force, "skipped", "fast_path",
                              NoneSha, <<>>)
            /\ UNCHANGED <<apiCalls, genFiles>>
       ELSE /\ apiCalls' = Append(apiCalls, aid)
            /\ genFiles' = genFiles \cup
                  {GenPath(aid, "text_to_image", ts, "png")}
            /\ gen' = GenCall("t2i", aid, force,
                  IF fate \in {"api_error", "bad_image"} THEN "raised"
                  ELSE "db",
                  fate,
                  IF fate \in {"api_error", "bad_image"} THEN NoneSha
                  ELSE sha,
                  IF fate = "api_error" THEN <<>>
                  ELSE GenPath(aid, "text_to_image", ts, "png"))

\* generate_t2i_for_article lines 80-146: key check, fast path, request,
\* response, download and hashing; the store is only read
T2IBody(aid, force, fate, sha, ts) ==
    /\ clock' = ts
    /\ IF ~apiKey
       THEN /\ gen' = GenCall("t2i", aid, force, "raised", "no_key", NoneSha,
                              <<>>)
            /\ UNCHANGED <<apiCalls, genFiles>>
       ELSE IF T2ISkips(aid, force)
       THEN /\ gen' = GenCall("t2i", aid, force, "skipped", "fast_path",
                              NoneSha, <<>>)
            /\ UNCHANGED <<apiCalls, genFiles>>
       ELSE /\ apiCalls' = Append(apiCalls, aid)
            /\ IF fate = "api_error"
               THEN /\ genFiles' = genFiles
                    /\ gen' = GenCall("t2i", aid, force, "raised", fate,
                                      NoneSha, <<>>)
               ELSE /\ genFiles' = genFiles \cup
                          {GenPath(aid, "text_to_image", ts, "png")}
                    /\ gen' = GenCall("t2i", aid, force,
                          IF fate = "bad_image" THEN "raised" ELSE "db",
                          fate, IF fate = "bad_image" THEN NoneSha ELSE sha,
                          GenPath(aid, "text_to_image", ts, "png"))

\* a direct call of generate_t2i_for_article
CallT2I(aid, force, fate, sha, ts) ==
    /\ GenDone /\ batch.op = "none"
    /\ Len(apiCalls) < MaxApiCalls
    /\ T2IBody(aid, force, fate, sha, ts)
    /\ UNCHANGED <<apiKey, articles, batch>>
    /\ UNCHANGED <<scrapeVars, storeVars, fnVars>>

\* the transaction is rolled back and the exception leaves the call
T2IRollback(at) ==
    /\ txAssets' = {}
    /\ sess' = "closed"
    /\ gen' = [gen EXCEPT !.stage = "raised", !.at = at]

\* the asset row is committed by a commit of its own
T2IAsset_OwnCommit ==
    /\ gen.op = "t2i" /\ gen.stage = "db"
    /\ LET res == create_or_get_asset(assets \cup txAssets, gen.aid,
                                      "generated_image", gen.path, gen.sha)
       IN  IF res.outcome \in {"ValueError", "IntegrityError"}
           THEN T2IRollback(res.outcome) /\ UNCHANGED assets
           ELSE /\ assets' = res.rows
                /\ txAssets' = {}
                /\ sess' = "open"
                /\ gen' = [gen EXCEPT !.stage = "mark"]
    /\ UNCHANGED <<texts, txTexts, pendingTexts, oidCtr, prev, last, ncalls>>
    /\ UNCHANGED txArticles
    /\ UNCHANGED <<apiKey, articles, genFiles, apiCalls, clock, batch>>
    /\ UNCHANGED <<scrapeVars, fnVars>>

\* lines 150-162: the session begins its transaction, create_or_get_asset
T2IAsset ==
    /\ gen.op = "t2i" /\ gen.stage = "db"
    /\ LET res == create_or_get_asset(assets \cup txAssets, gen.aid,
                                      "generated_image", gen.path, gen.sha)
       IN  IF res.outcome \in {"ValueError", "IntegrityError"}
           THEN T2IRollback(res.outcome) /\ UNCHANGED assets
           ELSE /\ assets' = assets
                /\ txAssets' = res.rows \ assets
                /\ sess' = "open"
                /\ gen' = [gen EXCEPT !.stage = "mark"]
    /\ UNCHANGED <<texts, txTexts, pendingTexts, oidCtr, prev, last, ncalls>>
    /\ UNCHANGED txArticles
    /\ UNCHANGED <<apiKey, articles, genFiles, apiCalls, clock, batch>>
    /\ UNCHANGED <<scrapeVars, fnVars>>

\* line 163 and crud.py mark_article_image_generated
T2IMark ==
    /\ gen.op = "t2i" /\ gen.stage = "mark"
    /\ IF gen.aid \notin DOMAIN articles
       THEN T2IRollback("no_article")
       ELSE /\ gen' = [gen EXCEPT !.stage = "commit"]
            /\ UNCHANGED <<txAssets, sess>>
    /\ UNCHANGED <<assets, texts, txTexts, pendingTexts, oidCtr, prev, last,
                   ncalls>>
    /\ UNCHANGED txArticles
    /\ UNCHANGED <<apiKey, articles, genFiles, apiCalls, clock, batch>>
    /\ UNCHANGED <<scrapeVars, fnVars>>

\* leaving "with SessionLocal() as db, db.begin()": commit, then close
T2ICommit ==
    /\ gen.op = "t2i" /\ gen.stage = "commit"
    /\ assets' = assets \cup txAssets
    /\ txAssets' = {}
    /\ articles' = [articles EXCEPT ![gen.aid].has_image_generated = TRUE]
    /\ sess' = "closed"
    /\ gen' = [gen EXCEPT !.stage = "meta", !.committed = TRUE]
    /\ UNCHANGED <<texts, txTexts, pendingTexts, oidCtr, prev, last, ncalls>>
    /\ UNCHANGED txArticles
    /\ UNCHANGED <<apiKey, genFiles, apiCalls, clock, batch>>
    /\ UNCHANGED <<scrapeVars, fnVars>>

\* lines 168-189: the sidecar with the request and the response, the result
T2IMeta ==
    /\ gen.op = "t2i" /\ gen.stage = "meta"
    /\ IF gen.at = "meta_write_fails"
       THEN /\ gen' = [gen EXCEPT !.stage = "raised"]
            /\ UNCHANGED genFiles
       ELSE /\ genFiles' = genFiles \cup
                  {GenPath(gen.aid, "text_to_image", gen.path[3], "json")}
            /\ gen' = [gen EXCEPT !.stage = "done"]
    /\ UNCHANGED <<apiKey, articles, apiCalls, clock, batch>>
    /\ UNCHANGED <<scrapeVars, storeVars, fnVars>>

\* the process stops inside the call; an open transaction is lost
T2IStop ==
    /\ gen.op = "t2i" /\ gen.stage \in {"db", "mark", "commit", "meta"}
    /\ batch.op = "none"
    /\ txAssets' = {}
    /\ sess' = "closed"
    /\ gen' = [gen EXCEPT !.stage = "crashed"]
    /\ UNCHANGED <<assets, texts, txTexts, pendingTexts, oidCtr, prev, last,
                   ncalls>>
    /\ UNCHANGED txArticles
    /\ UNCHANGED <<apiKey, articles, genFiles, apiCalls, clock, batch>>
    /\ UNCHANGED <<scrapeVars, fnVars>>

\* the articles table: some of the ids have a row, no flag is set yet
ArticleTables == UNION {[S -> {NoFlags}] : S \in SUBSET GenIds}

InitT2I ==
    /\ ScrapeIdle /\ StoreIdle /\ FnIdle
    /\ apiKey \in BOOLEAN
    /\ articles \in ArticleTables
    /\ genFiles = {} /\ apiCalls = <<>> /\ clock = 0
    /\ gen = [op |-> "none"] /\ batch = [op |-> "none"]

NextT2I ==
    \/ \E aid \in GenIds, force \in BOOLEAN, fate \in T2IFates,
          sha \in GenShas, ts \in 0..MaxClock :
          ts >= clock /\ CallT2I(aid, force, fate, sha, ts)
    \/ T2IAsset
    \/ T2IMark
    \/ T2ICommit
    \/ T2IMeta
    \/ T2IStop

SpecT2I == InitT2I /\ [][NextT2I]_vars

\* C11: once generate_t2i_for_article has returned its result for an
\* article, the article's has_image_generated flag is true from then on, and
\* every later call for it with force=False is skipped: no request is sent to
\* the generation API, no Asset row and no file is added.
C11_SkipAfterSuccess ==
    /\ \A a \in DoneIds("t2i") :
         a \in DOMAIN articles /\ articles[a].has_image_generated
    /\ (gen.op = "t2i" /\ ~gen.force /\ gen.aid \in gen.doneBefore)
       => /\ gen.stage = "skipped"
          /\ Len(apiCalls) = gen.preCalls
          /\ assets \cup txAssets = gen.preAssets
          /\ genFiles = gen.preFiles
          /\ articles = gen.preArticles

C11_Witness ==
    /\ gen.op = "t2i" /\ ~gen.force /\ gen.aid \in gen.doneBefore
    /\ gen.stage = "skipped"
    /\ Len(apiCalls) >= 1

\* C12: the Asset row and the flag of one generate_t2i_for_article call
\* reach the committed store together or not at all: until the transaction
\* commits, and after a call that failed in create_or_get_asset or in
\* mark_article_image_generated, the committed assets and articles are those
\* the call started with; after the commit the flag is set and the article
\* has the asset row that create_or_get_asset returned (the row of the
\* image's path or of its sha256).
C12_AssetAndFlagTogether ==
    gen.op = "t2i" =>
        IF gen.committed
        THEN /\ articles[gen.aid].has_image_generated
             /\ \E r \in assets :
                  /\ r.article_id = gen.aid
                  /\ r.path = gen.path \/ r.sha256 = gen.sha
        ELSE /\ assets = gen.preAssets
             /\ articles = gen.preArticles

\* the asset was flushed, then the article row turned out to be missing
C12_Witness ==
    /\ gen.op = "t2i" /\ gen.stage = "raised" /\ gen.at = "no_article"
    /\ assets # {}

(***************************************************************************)
(* _build_prompt (app/generation.py) on strings of the sizes it meets.     *)
(***************************************************************************)
SPACE   == 37
NEWLINE == 38
COLON   == 39

Whitespace == {SPACE, NEWLINE}

\* str.strip()
strip(s) ==
    IF \A k \in 1..Len(s) : s[k] \in Whitespace THEN <<>>
    ELSE LET a == CHOOSE k \in 1..Len(s) :
                    /\ s[k] \notin Whitespace
                    /\ \A j \in 1..(k - 1) : s[j] \in Whitespace
             b == CHOOSE k \in 1..Len(s) :
                    /\ s[k] \notin Whitespace
                    /\ \A j \in (k + 1)..Len(s) : s[j] \in Whitespace
         IN  SubSeq(s, a, b)

\* str.replace("\n", " ")
replace_newlines(s) ==
    [k \in 1..Len(s) |-> IF s[k] = NEWLINE THEN SPACE ELSE s[k]]

\* s[:stop] of Python: a negative stop counts from the end
slice_to(s, stop) ==
    IF stop >= 0
    THEN SubSeq(s, 1, IF stop < Len(s) THEN stop ELSE Len(s))
    ELSE SubSeq(s, 1, Len(s) + stop)

\* ". Photorealistic editorial illustration about: "
STYLE_TEXT ==
    <<DOT, SPACE, 25, 17, 24, 29, 24, 27, 14, 10, 21, 18, 28, 29, 18, 12,
       SPACE, 14, 13, 18, 29, 24, 27, 18, 10, 21, SPACE, 18, 21, 21, 30,
       28, 29, 27, 10, 29, 18, 24, 23, SPACE, 10, 11, 24, 30, 29, COLON,
       SPACE >>

max_chars_default == 750

PROMPT_RESERVE == 20

\* generation.py _build_prompt
_build_prompt(title, body, max_chars) ==
    LET t     == strip(title)
        b     == replace_newlines(strip(body))
        piece == strip(slice_to(b, max_chars - Len(t) - PROMPT_RESERVE))
    IN  t \o STYLE_TEXT \o piece

Rep(c, k) == [j \in 1..k |-> c]

\* String(1024) of the title column
MaxTitleLen == 1024

TitleLens == {0, 1, 7, 682, 683, 703, 729, 730, 731, 753, 754, MaxTitleLen}

BodyLens == {0, 1, 19, 46, 47, 682, 683, 729, 730, 731, 749, MaxBodyLen}

\* titles and bodies of letters, some with blanks around them and some with
\* a line break and blanks inside
PromptTitles ==
    {Rep(SPACE, a) \o Rep(33, t) \o Rep(SPACE, a) :
        t \in TitleLens, a \in 0..1}

PromptBodies ==
    {Rep(34, p) : p \in BodyLens}
    \cup {Rep(NEWLINE, 1) \o Rep(34, p) \o <<NEWLINE, SPACE>> \o Rep(35, 5) :
            p \in BodyLens}

InitPrompt ==
    /\ arg \in [title : PromptTitles, body : PromptBodies,
                max_chars : {max_chars_default}]
    /\ ret = <<>>
    /\ ScrapeIdle /\ StoreIdle /\ GenIdle

CallBuildPrompt ==
    /\ ret = <<>>
    /\ ret' = <<_build_prompt(arg.title, arg.body, arg.max_chars)>>
    /\ UNCHANGED <<arg, scrapeVars, storeVars, genVars>>

NextPrompt == CallBuildPrompt

SpecPrompt == InitPrompt /\ [][NextPrompt]_vars

PROMPT_LIMIT == 800

\* C13: for every title (up to the 1024 characters of the column) and every
\* body, the prompt is at most max_chars characters long and in any case no
\* longer than the limit of about 800 characters.
C13_PromptWithinBudget ==
    ret # <<>> =>
        /\ Len(ret[1]) <= arg.max_chars
        /\ Len(ret[1]) <= PROMPT_LIMIT

(***************************************************************************)
(* The extension of the saved original image (_save_post_files, lines      *)
(* 212-219).  Letters carry no case in this encoding, so lower() has       *)
(* nothing to change.                                                      *)
(***************************************************************************)
SLASH  == 40
QMARK  == 41
SEMI   == 42
EQUALS == 43

\* positions of a character in a string
Positions(s, c) == {k \in 1..Len(s) : s[k] = c}

\* s.rfind(c), counted from 1; 0 when c does not occur
rfind(s, c) == SetMax(Positions(s, c) \cup {0})

\* s.split(c)[0]
split_first(s, c) ==
    IF Positions(s, c) = {} THEN s
    ELSE SubSeq(s, 1, (CHOOSE k \in Positions(s, c) :
                          \A j \in Positions(s, c) : k <= j) - 1)

\* os.path.splitext(p)[-1]: the text from the last dot of the last path
\* component on, unless that component has only leading dots before it
splitext_ext(p) ==
    LET sepIndex == rfind(p, SLASH)
        dotIndex == rfind(p, DOT)
    IN  IF dotIndex > sepIndex
           /\ \E k \in (sepIndex + 1)..(dotIndex - 1) : p[k] # DOT
        THEN SubSeq(p, dotIndex, Len(p))
        ELSE <<>>

EXT_JPG  == <<DOT, 19, 25, 16>>
EXT_JPE  == <<DOT, 19, 25, 14>>
EXT_PNG  == <<DOT, 25, 23, 16>>
EXT_WEBP == <<DOT, 32, 14, 11, 25>>
EXT_HTML == <<DOT, 17, 29, 22, 21>>

CT_JPEG == <<18, 22, 10, 16, 14, SLASH, 19, 25, 14, 16>>
CT_PNG  == <<18, 22, 10, 16, 14, SLASH, 25, 23, 16>>
CT_WEBP == <<18, 22, 10, 16, 14, SLASH, 32, 14, 11, 25>>
CT_HTML == <<29, 14, 33, 29, SLASH, 17, 29, 22, 21>>

\* mimetypes.guess_extension: <<>> stands for None; the library gives .jpe or
\* .jpg for image/jpeg depending on its version
guess_extension(ct, jpeg_ext) ==
    IF ct = CT_JPEG THEN jpeg_ext
    ELSE IF ct = CT_PNG THEN EXT_PNG
    ELSE IF ct = CT_WEBP THEN EXT_WEBP
    ELSE IF ct = CT_HTML THEN EXT_HTML
    ELSE <<>>

\* lines 213-219
image_extension(content_type, image_url, jpeg_ext) ==
    LET ct == strip(split_first(content_type, SEMI))
        g1 == IF ct # <<>> THEN guess_extension(ct, jpeg_ext) ELSE <<>>
        g2 == IF g1 # <<>> THEN g1
              ELSE LET e == split_first(splitext_ext(image_url), QMARK)
                   IN  IF e # <<>> THEN e ELSE EXT_JPG
    IN  IF g2 = EXT_JPE THEN EXT_JPG ELSE g2

\* Content-Type headers: absent, plain, with a parameter, padded, unknown
ContentTypes ==
    { <<>>, CT_WEBP, CT_PNG \o <<SEMI, SPACE, 26, EQUALS, 1>>,
      <<SPACE>> \o CT_JPEG \o <<SPACE>>, CT_HTML,
      <<10, 25, 25, 21, 18, 12, 10, 29, 18, 24, 23, SLASH, 35, 35>> }

UrlStems == { <<17, SLASH, 10>>, <<17, DOT, 12, 24, 22, SLASH, 11, SLASH, 12>> }

UrlExts == { <<>>, EXT_JPG, EXT_JPE, EXT_PNG }

UrlQueries ==
    { <<>>, <<QMARK, 33, EQUALS, 1>>, <<QMARK, 31, EQUALS, 1, DOT, 2>>,
      <<QMARK, 30, EQUALS, 10, SLASH, 11>> }

ImageUrls == {st \o e \o q : st \in UrlStems, e \in UrlExts, q \in UrlQueries}

InitExt ==
    /\ arg \in [content_type : ContentTypes, image_url : ImageUrls,
                jpeg_ext : {EXT_JPE, EXT_JPG}]
    /\ ret = <<>>
    /\ ScrapeIdle /\ StoreIdle /\ GenIdle

CallImageExtension ==
    /\ ret = <<>>
    /\ ret' = <<image_extension(arg.content_type, arg.image_url,
                                arg.jpeg_ext)>>
    /\ UNCHANGED <<arg, scrapeVars, storeVars, genVars>>

NextExt == CallImageExtension

SpecExt == InitExt /\ [][NextExt]_vars

\* the image URL with any query string removed
UrlWithoutQuery(u) == split_first(u, QMARK)

\* the extension the stated priority gives
ExtByPriority(content_type, image_url, jpeg_ext) ==
    LET ct   == strip(split_first(content_type, SEMI))
        byCt == guess_extension(ct, jpeg_ext)
        byUrl == splitext_ext(UrlWithoutQuery(image_url))
        e    == IF byCt # <<>> THEN byCt
                ELSE IF byUrl # <<>> THEN byUrl
                ELSE EXT_JPG
    IN  IF e = EXT_JPE THEN EXT_JPG ELSE e

\* C14: the extension is the one the declared content type maps to, else
\* the extension of the image URL with any query string removed, else .jpg,
\* and .jpe is always replaced by .jpg; image/webp with a URL ending in
\* .jpg?x=1 gives .webp.
C14_ExtensionByPriority ==
    ret # <<>> =>
        /\ ret[1] = ExtByPriority(arg.content_type, arg.image_url,
                                  arg.jpeg_ext)
        /\ ret[1] # EXT_JPE

(***************************************************************************)
(* The representative image of a post (_get_featured_image_src and         *)
(* _first_img_from_content, used by _normalize_post line 184).             *)
(***************************************************************************)
None == "None"

\* a size entry of media_details.sizes: missing (sizes.get gives None), an
\* empty dict, a dict without source_url, or a dict with its source_url
NoEntry == [dict |-> FALSE, keys |-> 0, source_url |-> None]

EmptyDict == [dict |-> TRUE, keys |-> 0, source_url |-> None]

DictWithoutUrl == [dict |-> TRUE, keys |-> 1, source_url |-> None]

DictWithUrl(u) == [dict |-> TRUE, keys |-> 1, source_url |-> u]

SizeEntries(u) == {NoEntry, EmptyDict, DictWithoutUrl, DictWithUrl(u)}

\* Python truth value of None or a dict
TruthyEntry(e) == e.dict /\ e.keys > 0

\* Python truth value of None or a string
TruthyStr(v) == v \notin {None, ""}

\* scraper.py _get_featured_image_src
_get_featured_image_src(item) ==
    LET full == IF TruthyEntry(item.full) THEN item.full
                ELSE IF TruthyEntry(item.large) THEN item.large
                ELSE item.medium
        fromSizes == IF full.dict /\ TruthyStr(full.source_url)
                     THEN full.source_url ELSE None
        fromMedia == IF ~item.has_media THEN None
                     ELSE IF fromSizes # None THEN fromSizes
                     ELSE IF TruthyStr(item.source_url)
                          THEN item.source_url ELSE None
    IN  IF fromMedia # None THEN fromMedia
        ELSE IF TruthyStr(item.og_image) THEN item.og_image
        ELSE None

\* scraper.py _first_img_from_content: the src of the first <img>
_first_img_from_content(item) ==
    IF TruthyStr(item.first_img_src) THEN item.first_img_src ELSE None

\* _normalize_post line 184
ImageURL(item) ==
    IF TruthyStr(_get_featured_image_src(item))
    THEN _get_featured_image_src(item)
    ELSE _first_img_from_content(item)

Items ==
    [has_media : BOOLEAN,
     full : SizeEntries("uFull"), large : SizeEntries("uLarge"),
     medium : SizeEntries("uMedium"),
     source_url : {None, "uBase"},
     og_image : {None, "uOg"},
     first_img_src : {None, "uImg"}]

\* a post as the API returns it: without featured media there are no sizes
\* and no base source URL
WellFormedItem(item) ==
    item.has_media \/ (/\ item.full = NoEntry /\ item.large = NoEntry
                       /\ item.medium = NoEntry /\ item.source_url = None)

InitImgSrc ==
    /\ arg \in {it \in Items : WellFormedItem(it)}
    /\ ret = <<>>
    /\ ScrapeIdle /\ StoreIdle /\ GenIdle

CallImageURL ==
    /\ ret = <<>>
    /\ ret' = <<ImageURL(arg)>>
    /\ UNCHANGED <<arg, scrapeVars, storeVars, genVars>>

NextImgSrc == CallImageURL

SpecImgSrc == InitImgSrc /\ [][NextImgSrc]_vars

\* the URL a size entry carries, None when it carries none
UrlOfEntry(e) == e.source_url

\* the candidate URLs of a post in the stated order
Candidates(item) ==
    << UrlOfEntry(item.full), UrlOfEntry(item.large), UrlOfEntry(item.medium),
       item.source_url, item.og_image, item.first_img_src >>

FirstAvailable(c) ==
    IF \A k \in 1..Len(c) : c[k] = None THEN None
    ELSE c[CHOOSE k \in 1..Len(c) :
             c[k] # None /\ \A j \in 1..(k - 1) : c[j] = None]

\* C16: the image URL of a post is the first available of the "full", the
\* "large", the "medium" size URL, the featured-media base source URL, the
\* Open-Graph image URL and the src of the first <img>, and none only when
\* all are absent, also when a size entry exists but carries no URL.
C16_FirstAvailableImage ==
    ret # <<>> => ret[1] = FirstAvailable(Candidates(arg))

(***************************************************************************)
(* backoff_retry_get (app/scraper.py), one step per pass of its loop.      *)
(***************************************************************************)
RETRY_AFTER_DEFAULT == <<2>>

RETRY_AFTER_CAP == 10

\* Retry-After values a server sends: seconds, or an HTTP date
\* ("Wed, 21 Oct ..." stands as its first word)
RetryAfterHeaders == {<<0>>, <<3>>, <<1, 0>>, <<6, 0>>, <<32, 14, 13>>}

\* what one requests.get meets: a response with its status, or no response
NoResponse == [status |-> 0, has_retry_after |-> FALSE, retry_after |-> <<>>]

Responses ==
    [status : {200, 301, 404, 500}, has_retry_after : {FALSE},
     retry_after : {<<>>}]
    \cup [status : {429}, has_retry_after : {FALSE}, retry_after : {<<>>}]
    \cup [status : {429}, has_retry_after : {TRUE},
          retry_after : RetryAfterHeaders]
    \cup {NoResponse}

\* r.headers.get("Retry-After", "2")
RetryAfterText(r) ==
    IF r.has_retry_after THEN r.retry_after ELSE RETRY_AFTER_DEFAULT

\* int(text) accepts it
IntParses(text) == text # <<>> /\ AllDigits(text)

\* r.raise_for_status() raises HTTPError
IsErrorStatus(st) == st >= 400 /\ st < 600

\* lines 101-115, one pass of the loop; sleeps are in tenths of a second
backoff_pass(st, r, max_tries) ==
    LET tries == st.tries + 1
        base  == [st EXCEPT !.tries = tries, !.last = r]
        exhausted(b, err) ==
            IF tries >= max_tries
            THEN [b EXCEPT !.outcome = "raised", !.error = err]
            ELSE [b EXCEPT !.sleeps = Append(b.sleeps, 15 * tries)]
    IN  IF r.status = 0
        THEN exhausted(base, "ConnectionError")
        ELSE IF r.status = 429 /\ ~IntParses(RetryAfterText(r))
        THEN [base EXCEPT !.outcome = "raised", !.error = "ValueError"]
        ELSE LET slept == IF r.status = 429
                          THEN [base EXCEPT !.sleeps = Append(base.sleeps,
                                  10 * Min(int(RetryAfterText(r)),
                                           RETRY_AFTER_CAP))]
                          ELSE base
             IN  IF r.status = 429 /\ tries < max_tries
                 THEN slept
                 ELSE IF IsErrorStatus(r.status)
                 THEN exhausted(slept, "HTTPError")
                 ELSE [slept EXCEPT !.outcome = "returned"]

InitBackoff ==
    /\ arg \in [max_tries : 0..MaxTries]
    /\ ret = [tries |-> 0, sleeps |-> <<>>, outcome |-> "running",
              error |-> None, last |-> NoResponse]
    /\ ScrapeIdle /\ StoreIdle /\ GenIdle

BackoffPass(r) ==
    /\ ret.outcome = "running"
    /\ ret' = backoff_pass(ret, r, arg.max_tries)
    /\ UNCHANGED <<arg, scrapeVars, storeVars, genVars>>

NextBackoff == \E r \in Responses : BackoffPass(r)

SpecBackoff == InitBackoff /\ [][NextBackoff]_vars

\* C17: backoff_retry_get makes at least one and at most max_tries requests;
\* after a 429 response with tries remaining it has slept
\* min(Retry-After, 10) seconds (2 when the header is absent) and goes on; an
\* error leaves the function only once max_tries requests have been made;
\* and a returned response has no error status.
C17_BoundedRetry ==
    /\ ret.tries <= (IF arg.max_tries > 1 THEN arg.max_tries ELSE 1)
    /\ ret.outcome # "running" => ret.tries >= 1
    /\ (ret.tries >= 1 /\ ret.last.status = 429
        /\ ret.tries < arg.max_tries)
       => /\ ret.outcome = "running"
          /\ ret.sleeps # <<>>
          /\ ret.sleeps[Len(ret.sleeps)] =
               10 * Min(int(RetryAfterText(ret.last)), RETRY_AFTER_CAP)
    /\ ret.outcome = "raised" => ret.tries >= arg.max_tries
    /\ ret.outcome = "returned" => ~IsErrorStatus(ret.last.status)

(***************************************************************************)
(* Image-to-text generation (app/generation_text.py).  The whole call runs *)
(* in one session; its first query begins the session's transaction.       *)
(***************************************************************************)
\* the members of the TextKind enum (models.py)
TextKindMembers == {"original_text", "generated_text_from_image", "other"}

\* getattr(TextKind, name, None)
getattr_TextKind(name) == IF name \in TextKindMembers THEN name ELSE None

\* line 166: the kind looked for by the force=False check
SkipKind ==
    IF TruthyStr(getattr_TextKind("vision_article"))
    THEN getattr_TextKind("vision_article")
    ELSE getattr_TextKind("summary")

\* line 208: the kind of the TextRow that is written
WriteKind ==
    IF TruthyStr(getattr_TextKind("vision_article"))
    THEN getattr_TextKind("vision_article")
    ELSE "original_text"

\* lines 164-175: the call returns None because a text is already there
I2TSkips(aid, force) ==
    /\ ~force
    /\ TruthyStr(SkipKind)
    /\ \E r \in texts : r.article_id = aid /\ r.kind = SkipKind

\* _get_image_anywhere: where the source image comes from.  An asset row
\* that is not a generated image (_get_image_from_db), else an image file
\* in the article's folder, else (rglob, the last resort of
\* _guess_first_image_on_disk) an image file anywhere below the folder,
\* else None
_get_image_anywhere(rows, files, aid) ==
    IF \E r \in rows : r.article_id = aid /\ r.kind # "generated_image"
    THEN "asset"
    ELSE IF aid \in DOMAIN disk /\ disk[aid].dir /\ disk[aid].img
    THEN "scraped_file"
    ELSE IF \E f \in files : f[1] = aid /\ f[4] = "png"
    THEN "generated_file"
    ELSE None

\* line 179: an image was found
HasSourceImage(aid) == _get_image_anywhere(assets, genFiles, aid) # None

\* what the environment does to one generate_article_for_image call
I2TFates == {"bad_image", "api_error", "ok"}

\* generate_article_for_image lines 163-204: the check for an existing text,
\* the source image, the request and the two files.  A call that goes on to
\* the store step leaves the session with the transaction its image query
\* began; every other exit closes the session.
I2TBody(aid, force, fate, ts) ==
    /\ clock' = ts
    /\ IF I2TSkips(aid, force)
       THEN /\ gen' = GenCall("i2t", aid, force, "skipped", "has_text",
                              NoneSha, <<>>)
            /\ UNCHANGED <<apiCalls, genFiles, sess>>
       ELSE IF ~HasSourceImage(aid)
       THEN /\ gen' = GenCall("i2t", aid, force, "skipped", "no_image",
                              NoneSha, <<>>)
            /\ UNCHANGED <<apiCalls, genFiles, sess>>
       ELSE IF fate = "bad_image" \/ ~apiKey
       THEN /\ gen' = GenCall("i2t", aid, force, "raised",
                              IF fate = "bad_image" THEN fate ELSE "no_key",
                              NoneSha, <<>>)
            /\ UNCHANGED <<apiCalls, genFiles, sess>>
       ELSE /\ apiCalls' = Append(apiCalls, aid)
            /\ IF fate = "api_error"
               THEN /\ gen' = GenCall("i2t", aid, force, "raised", fate,
                                      NoneSha, <<>>)
                    /\ UNCHANGED <<genFiles, sess>>
               ELSE /\ genFiles' = genFiles \cup
                          {GenPath(aid, "image_to_article", ts, "md"),
                           GenPath(aid, "image_to_article", ts, "json")}
                    /\ sess' = "open"
                    /\ gen' = GenCall("i2t", aid, force, "db", fate, NoneSha,
                                 GenPath(aid, "image_to_article", ts, "md"))

\* a direct call of generate_article_for_image
CallI2T(aid, force, fate, ts) ==
    /\ GenDone /\ batch.op = "none"
    /\ Len(apiCalls) < MaxApiCalls
    /\ I2TBody(aid, force, fate, ts)
    /\ UNCHANGED <<apiKey, articles, batch>>
    /\ UNCHANGED <<assets, txAssets, texts, txTexts, pendingTexts, oidCtr,
                   prev, last, ncalls>>
    /\ UNCHANGED txArticles
    /\ UNCHANGED <<scrapeVars, fnVars>>

\* lines 206-225: "with db.begin()" raises when the session already has a
\* transaction; any exception of the store step is logged and dropped, and
\* the result is returned
I2TDb ==
    /\ gen.op = "i2t" /\ gen.stage = "db"
    /\ LET res == create_or_get_text(texts, gen.aid, WriteKind, gen.path,
                                     oidCtr + 1)
       IN  IF sess = "open" \/ gen.aid \notin DOMAIN articles
           THEN UNCHANGED <<texts, oidCtr, articles>>
           ELSE /\ texts' = texts \cup {res.row}
                /\ oidCtr' = IF res.outcome = "added" THEN oidCtr + 1
                             ELSE oidCtr
                /\ articles' = [articles EXCEPT
                                  ![gen.aid].has_text_generated = TRUE]
    /\ sess' = "closed"
    /\ gen' = [gen EXCEPT !.stage = "done",
                          !.committed = (sess # "open"
                                         /\ gen.aid \in DOMAIN articles)]
    /\ UNCHANGED <<assets, txAssets, txTexts, pendingTexts, prev, last,
                   ncalls>>
    /\ UNCHANGED txArticles
    /\ UNCHANGED <<apiKey, genFiles, apiCalls, clock, batch>>
    /\ UNCHANGED <<scrapeVars, fnVars>>

\* article folders as the scrape left them: with or without an image file
ArticleFolder(hasImg) ==
    [EmptyFolder EXCEPT !.txt = TRUE, !.img = hasImg, !.meta = "ok",
                        !.url = "a", !.image_saved_path = hasImg]

FolderTables ==
    UNION {[S -> {ArticleFolder(TRUE), ArticleFolder(FALSE)}] :
             S \in SUBSET GenIds}

InitI2T ==
    /\ dirExists = TRUE /\ disk \in FolderTables /\ pc = "idle"
    /\ feed = <<>> /\ fresh = <<>> /\ n = 0 /\ i = 0 /\ imgres = "none"
    /\ saved = <<>> /\ preRun = <<>> /\ written = {} /\ status = "none"
    /\ rerun = FALSE /\ nruns = 0
    /\ StoreIdle /\ FnIdle
    /\ apiKey \in BOOLEAN
    /\ articles \in ArticleTables
    /\ genFiles = {} /\ apiCalls = <<>> /\ clock = 0
    /\ gen = [op |-> "none"] /\ batch = [op |-> "none"]

NextI2T ==
    \/ \E aid \in GenIds, force \in BOOLEAN, fate \in I2TFates,
          ts \in 0..MaxClock :
          ts >= clock /\ CallI2T(aid, force, fate, ts)
    \/ I2TDb

SpecI2T == InitI2T /\ [][NextI2T]_vars

\* C20: once generate_article_for_image has returned its result for an
\* article, a later call for it with force=False is skipped: no request is
\* sent to the vision API, no file is written and no TextRow is added.
C20_I2TSkipAfterSuccess ==
    (gen.op = "i2t" /\ ~gen.force /\ gen.aid \in gen.doneBefore)
    => /\ gen.stage = "skipped"
       /\ Len(apiCalls) = gen.preCalls
       /\ genFiles = gen.preFiles
       /\ texts = gen.preTexts

(***************************************************************************)
(* The batch operations: generate_missing_images and                       *)
(* generate_next_images_below (generation.py), generate_next_articles_below*)
(* (generation_text.py).  Each loops over a list of article ids and calls  *)
(* the generation of one article inside try/except Exception.              *)
(***************************************************************************)
BatchOps == {"missing_images", "images_below", "articles_below"}

\* start ids of a traversal: the id above every article id, and one that
\* has no numeric suffix (the window is empty)
BatchStarts == {_make_id(MaxArticle + 1), ID_PREFIX}

BatchCounts == 1..(MaxArticle + 1)

\* sequences without repetition over the members of a set
Orderings(S) ==
    {s \in UNION {[1..k -> S] : k \in 0..Cardinality(S)} :
        /\ Len(s) = Cardinality(S)
        /\ \A j, k \in DOMAIN s : j # k => s[j] # s[k]}

\* the first k members of a sequence: list slicing, SQL LIMIT
Take(s, k) == SubSeq(s, 1, IF k < Len(s) THEN k ELSE Len(s))

\* the record kept of a batch call: its arguments, the ids it loops over,
\* the position of the loop, the ids whose generation was called, failed or
\* returned a result, and the store as it was when the call began
BatchCall(op, start, count, targets, items, force, dry_run, run) ==
    [op |-> op, start |-> start, count |-> count, targets |-> targets,
     items |-> items, force |-> force,
     dry_run |-> dry_run, pos |-> 1, inItem |-> FALSE,
     attempted |-> <<>>, failed |-> <<>>, done |-> <<>>,
     stage |-> IF run THEN "running" ELSE "returned",
     result |-> <<>>, returnsNone |-> FALSE,
     nth |-> (IF batch.op = "none" THEN 0 ELSE batch.nth) + 1,
     preArticles |-> articles, preCalls |-> Len(apiCalls)]

\* the return statement that follows the loop
BatchReturn(b) ==
    [b EXCEPT !.stage = "returned",
              !.result = IF b.op = "articles_below" THEN b.done
                         ELSE IF b.op = "images_below" THEN b.items
                         ELSE IF b.dry_run THEN b.items ELSE <<>>,
              !.returnsNone = (b.op = "missing_images" /\ ~b.dry_run)]

\* the loop goes on to the next id, or ends
BatchLoop(b) == IF b.pos > Len(b.items) THEN BatchReturn(b) ELSE b

BatchMayBegin ==
    /\ GenDone
    /\ IF batch.op = "none" THEN TRUE
       ELSE batch.stage = "returned" /\ batch.nth < MaxBatches

BatchBeginFrame ==
    /\ UNCHANGED <<apiKey, articles, genFiles, apiCalls, clock, gen>>
    /\ UNCHANGED <<scrapeVars, storeVars, fnVars>>

\* crud.py get_pending_articles_for_t2i: rows without the image flag,
\* oldest first (the creation order is any order of the rows), LIMIT limit
PendingLists(limit) ==
    {Take(s, limit) :
       s \in Orderings({a \in DOMAIN articles :
                          ~articles[a].has_image_generated})}

\* generate_missing_images lines 196-199
BeginMissingImages(limit, dry_run) ==
    /\ BatchMayBegin
    /\ \E ids \in PendingLists(limit) :
          batch' = BatchLoop(BatchCall("missing_images", <<>>, limit, <<>>,
                                       ids, FALSE, dry_run, TRUE))
    /\ BatchBeginFrame

\* the early returns of the two "below" operations: nothing in the window,
\* nothing left by the filter, dry_run
BelowCall(op, start, count, targets, items, force, dry_run) ==
    LET call(its, running) ==
            BatchCall(op, start, count, targets, its, force, dry_run, running)
    IN  IF targets = <<>> \/ items = <<>> THEN call(<<>>, FALSE)
        ELSE IF dry_run THEN [call(items, FALSE) EXCEPT !.result = items]
        ELSE call(items, TRUE)

\* the filter keeps every id that has an article row, flagged or not
BeginNextImagesBelow_IgnoresFlag(start, count, force, dry_run) ==
    /\ BatchMayBegin
    /\ LET targets == _ids_below(start, count)
           keep(aid) == aid \in DOMAIN articles
       IN  batch' = BelowCall("images_below", start, count, targets,
                              SelectSeq(targets, keep), force, dry_run)
    /\ BatchBeginFrame

\* generate_next_images_below lines 253-276: the targets, the filter, the
\* early returns
BeginNextImagesBelow(start, count, force, dry_run) ==
    /\ BatchMayBegin
    /\ LET targets == _ids_below(start, count)
           keep(aid) == /\ aid \in DOMAIN articles
                        /\ ~(articles[aid].has_image_generated /\ ~force)
       IN  batch' = BelowCall("images_below", start, count, targets,
                              SelectSeq(targets, keep), force, dry_run)
    /\ BatchBeginFrame

\* generate_next_articles_below lines 236-243
BeginNextArticlesBelow(start, count, force, dry_run) ==
    /\ BatchMayBegin
    /\ LET targets == _ids_below_text(start, count)
       IN  batch' = BelowCall("articles_below", start, count, targets,
                              targets, force, dry_run)
    /\ BatchBeginFrame

BatchAtItem ==
    /\ batch.op \in BatchOps /\ batch.stage = "running" /\ ~batch.inItem
    /\ batch.pos <= Len(batch.items)

\* the loop bodies of generate_missing_images (lines 201-205) and of
\* generate_next_images_below (lines 278-286): generate_t2i_for_article is
\* called for the next id
BatchImageItem(fate, sha, ts) ==
    /\ BatchAtItem /\ batch.op \in {"missing_images", "images_below"}
    /\ Len(apiCalls) < MaxApiCalls
    /\ T2IBody(batch.items[batch.pos], batch.force, fate, sha, ts)
    /\ batch' = [batch EXCEPT
                   !.inItem = TRUE,
                   !.attempted = Append(@, batch.items[batch.pos])]
    /\ UNCHANGED <<apiKey, articles>>
    /\ UNCHANGED <<scrapeVars, storeVars, fnVars>>

\* the loop body of generate_next_articles_below (lines 246-253): an id
\* without an article row is passed over, for the others
\* generate_article_for_image is called
BatchArticleItem(fate, ts) ==
    /\ BatchAtItem /\ batch.op = "articles_below"
    /\ Len(apiCalls) < MaxApiCalls
    /\ IF batch.items[batch.pos] \notin DOMAIN articles
       THEN /\ batch' = BatchLoop([batch EXCEPT !.pos = @ + 1])
            /\ UNCHANGED <<gen, genFiles, apiCalls, clock, sess>>
       ELSE /\ I2TBody(batch.items[batch.pos], batch.force, fate, ts)
            /\ batch' = [batch EXCEPT
                           !.inItem = TRUE,
                           !.attempted = Append(@, batch.items[batch.pos])]
    /\ UNCHANGED <<apiKey, articles>>
    /\ UNCHANGED <<assets, txAssets, texts, txTexts, pendingTexts, oidCtr,
                   prev, last, ncalls>>
    /\ UNCHANGED txArticles
    /\ UNCHANGED <<scrapeVars, fnVars>>

\* the exception of the generation leaves the batch call
BatchItemEnds_NoCatch ==
    /\ batch.op \in BatchOps /\ batch.stage = "running" /\ batch.inItem
    /\ GenDone
    /\ batch' =
         IF gen.stage = "raised"
         THEN [batch EXCEPT !.inItem = FALSE, !.stage = "raised",
                            !.failed = Append(@, gen.aid)]
         ELSE BatchLoop([batch EXCEPT
                 !.inItem = FALSE,
                 !.pos = @ + 1,
                 !.done = IF gen.stage = "done" THEN Append(@, gen.aid)
                          ELSE @])
    /\ BatchBeginFrame

\* the generation of one article has returned or raised: "except Exception"
\* logs the failure, and the loop goes on
BatchItemEnds ==
    /\ batch.op \in BatchOps /\ batch.stage = "running" /\ batch.inItem
    /\ GenDone
    /\ batch' = BatchLoop([batch EXCEPT
                   !.inItem = FALSE,
                   !.pos = @ + 1,
                   !.failed = IF gen.stage = "raised" THEN Append(@, gen.aid)
                              ELSE @,
                   !.done = IF gen.stage = "done" THEN Append(@, gen.aid)
                            ELSE @])
    /\ BatchBeginFrame

\* every article folder of the results directory holds an image, or none
BatchFolders == {[a \in GenIds |-> ArticleFolder(b)] : b \in BOOLEAN}

\* the state an earlier generate_t2i_for_article call for the articles of
\* F has left: the flag, the asset row and the two files
EarlierGenerated(tbl, F) ==
    /\ articles = [a \in DOMAIN tbl |->
                     IF a \in F
                     THEN [NoFlags EXCEPT !.has_image_generated = TRUE]
                     ELSE NoFlags]
    /\ assets = {[id |-> 1, article_id |-> a, kind |-> "generated_image",
                  path |-> GenPath(a, "text_to_image", -1, "png"),
                  sha256 |-> "h1"] : a \in F}
    /\ genFiles = UNION {{GenPath(a, "text_to_image", -1, "png"),
                          GenPath(a, "text_to_image", -1, "json")} : a \in F}

InitBatch ==
    /\ dirExists = TRUE /\ disk \in BatchFolders /\ pc = "idle"
    /\ feed = <<>> /\ fresh = <<>> /\ n = 0 /\ i = 0 /\ imgres = "none"
    /\ saved = <<>> /\ preRun = <<>> /\ written = {} /\ status = "none"
    /\ rerun = FALSE /\ nruns = 0
    /\ sess = "closed" /\ txAssets = {} /\ texts = {} /\ txTexts = {}
    /\ pendingTexts = <<>> /\ oidCtr = 0 /\ prev = NoCall /\ last = NoCall
    /\ ncalls = 0
    /\ txArticles = NoArticleWork
    /\ FnIdle
    /\ apiKey \in BOOLEAN
    /\ \E tbl \in ArticleTables, F \in SUBSET GenIds :
          F \subseteq DOMAIN tbl /\ Cardinality(F) <= 1
          /\ EarlierGenerated(tbl, F)
    /\ apiCalls = <<>> /\ clock = 0
    /\ gen = [op |-> "none"] /\ batch = [op |-> "none"]

\* a batch call is followed within the second the clock shows
NextBatch ==
    \/ \E limit \in BatchCounts, dry_run \in BOOLEAN :
          BeginMissingImages(limit, dry_run)
    \/ \E start \in BatchStarts, count \in BatchCounts,
          force \in BOOLEAN, dry_run \in BOOLEAN :
          BeginNextImagesBelow(start, count, force, dry_run)
    \/ \E start \in BatchStarts, count \in BatchCounts,
          force \in BOOLEAN, dry_run \in BOOLEAN :
          BeginNextArticlesBelow(start, count, force, dry_run)
    \/ \E fate \in T2IFates, sha \in GenShas :
          BatchImageItem(fate, sha, clock)
    \/ \E fate \in I2TFates : BatchArticleItem(fate, clock)
    \/ BatchItemEnds
    \/ T2IAsset \/ T2IMark \/ T2ICommit \/ T2IMeta
    \/ I2TDb

SpecBatch == InitBatch /\ [][NextBatch]_vars

\* the ids for which the loop of a batch call calls the generation
BatchExpected ==
    IF batch.op = "articles_below"
    THEN SelectSeq(batch.items, LAMBDA a : a \in DOMAIN batch.preArticles)
    ELSE batch.items

IsPrefix(s, t) == Len(s) <= Len(t) /\ s = SubSeq(t, 1, Len(s))

\* C18: in generate_missing_images, generate_next_images_below and
\* generate_next_articles_below a failure of the generation of one article
\* is caught: the batch call does not raise, and the generation is called
\* for every remaining id of its list, in the order of the list.
C18_BatchSurvivesFailures ==
    batch.op \in BatchOps =>
        /\ batch.stage \in {"running", "returned"}
        /\ IsPrefix(batch.attempted, BatchExpected)
        /\ \A k \in DOMAIN batch.failed :
              batch.failed[k] \in SeqRange(batch.attempted)
        /\ (batch.stage = "returned"
            /\ ~(batch.dry_run /\ batch.op # "missing_images"))
           => batch.attempted = BatchExpected

\* a batch call has returned after the generation of its first id failed
\* and the generation of its second id gave a result
C18_Witness ==
    /\ batch.op \in BatchOps /\ batch.stage = "returned"
    /\ Len(batch.attempted) >= 2
    /\ batch.failed = <<batch.attempted[1]>>
    /\ gen.aid = batch.attempted[2] /\ gen.stage = "done"

\* the numeric suffix of an article id
IdNumber(aid) == _parse_article_id(aid).num

\* C19: generate_next_images_below(start, count, force) processes and
\* returns exactly the ids of _ids_below(start, count) that have an Article
\* row and (unless force) no image flag, in descending order; for an
\* excluded id no request is sent to the image API.
C19_ImagesBelowSelection ==
    batch.op = "images_below" =>
        /\ batch.targets = _ids_below(batch.start, batch.count)
        /\ SeqRange(batch.items) =
             {a \in SeqRange(batch.targets) :
                /\ a \in DOMAIN batch.preArticles
                /\ batch.force \/ ~batch.preArticles[a].has_image_generated}
        /\ \A j, k \in DOMAIN batch.items :
              j < k => IdNumber(batch.items[j]) > IdNumber(batch.items[k])
        /\ IsPrefix(batch.attempted, batch.items)
        /\ batch.stage = "returned" =>
              /\ batch.result = batch.items /\ ~batch.returnsNone
              /\ ~batch.dry_run => batch.attempted = batch.items
        /\ \A k \in (batch.preCalls + 1)..Len(apiCalls) :
              apiCalls[k] \in SeqRange(batch.items)

\* a call without force has returned; an id of its window was left out for
\* its image flag, and the image of another id was requested from the API
C19_Witness ==
    /\ batch.op = "images_below" /\ batch.stage = "returned"
    /\ ~batch.force /\ ~batch.dry_run
    /\ \E a \in SeqRange(batch.targets) :
          /\ a \in DOMAIN batch.preArticles
          /\ batch.preArticles[a].has_image_generated
          /\ a \notin SeqRange(batch.items)
    /\ batch.attempted # <<>>
    /\ Len(apiCalls) > batch.preCalls

(***************************************************************************)
(* Properties of the image-to-text store step.                             *)
(***************************************************************************)
\* C21: when generate_article_for_image has returned a result for an
\* article, the committed store holds a TextRow for the written text file
\* and the article's has_text_generated flag is true; the store never holds
\* the row of a call without the flag, nor the flag without a row.
C21_TextRowAndFlagTogether ==
    /\ (gen.op = "i2t" /\ gen.stage = "done")
       => /\ \E r \in texts : r.article_id = gen.aid /\ r.path = gen.path
          /\ gen.aid \in DOMAIN articles
          /\ articles[gen.aid].has_text_generated
    /\ \A a \in DOMAIN articles :
          articles[a].has_text_generated
             <=> \E r \in texts : r.article_id = a

(***************************************************************************)
(* The scrape and the store.  No step of scrape_latest_wp_to_files and no  *)
(* step of its caller (main.py scrape_fragment) opens a session, so the    *)
(* actions of the scrape leave the store as it is.                         *)
(***************************************************************************)
\* C22: after a run of scrape_latest_wp_to_files has written the files of
\* an article, the store holds an Article row with the article's ID and
\* URL.
C22_ScrapeMirrorsArticles ==
    pc = "returned"
    => \A nm \in written :
          IF nm \in DOMAIN articles
          THEN articles[nm].url = disk[nm].url
          ELSE FALSE

(***************************************************************************)
(* upsert_article (app/db/crud.py) in one ORM session.  The session does   *)
(* not autoflush (session.py), so an Article object that was added and not *)
(* yet flushed is not seen by db.get.                                      *)
(***************************************************************************)
UpsertIds    == {_make_id(0), _make_id(1)}
UpsertUrls   == {"a", "b"}
UpsertTitles == {"t1", "t2"}
UpsertCounts == {0, 1}
UpsertDates  == {None, "d1"}

\* Article(...) of lines 26-32; the flag columns take their default
NewArticle(id, url, title, published_at, paragraphs_count) ==
    [id |-> id, url |-> url, title |-> title, published_at |-> published_at,
     paragraphs_count |-> paragraphs_count,
     has_image_generated |-> FALSE, has_text_generated |-> FALSE]

\* db.get(Article, id): the object the session holds for the row, else the
\* committed row; an added object has no identity before its flush
HasArticle(id) == id \in DOMAIN txArticles.dirty \/ id \in DOMAIN articles

GetArticle(id) ==
    IF id \in DOMAIN txArticles.dirty THEN txArticles.dirty[id]
    ELSE articles[id]

\* the update writes a whole new row, flags at their defaults
UpdatedArticle_ResetsFlags(row, url, title, published_at, paragraphs_count) ==
    NewArticle(row.id, url, title, published_at, paragraphs_count)

\* lines 17-24: the existing row is changed in place
UpdatedArticle(row, url, title, published_at, paragraphs_count) ==
    [row EXCEPT !.title = title, !.url = url,
                !.paragraphs_count = paragraphs_count,
                !.published_at = IF TruthyStr(published_at)
                                 THEN published_at ELSE @]

\* the Article objects of the session and the committed rows with an id
ArticleObjects(id) ==
    (IF HasArticle(id) THEN 1 ELSE 0)
    + Cardinality({k \in DOMAIN txArticles.new : txArticles.new[k].id = id})

\* crud.py upsert_article
CallUpsertArticle(id, url, title, published_at, paragraphs_count) ==
    /\ sess = "open" /\ ncalls < MaxCalls
    /\ LET found == HasArticle(id)
           row == IF found
                  THEN UpdatedArticle(GetArticle(id), url, title,
                                      published_at, paragraphs_count)
                  ELSE NewArticle(id, url, title, published_at,
                                  paragraphs_count)
       IN  /\ txArticles' =
                 IF found
                 THEN [txArticles EXCEPT
                         !.dirty = [k \in DOMAIN @ \cup {id} |->
                                      IF k = id THEN row ELSE @[k]]]
                 ELSE [txArticles EXCEPT !.new = Append(@, row)]
           /\ last' = [op |-> "upsert", id |-> id, url |-> url,
                       title |-> title, published_at |-> published_at,
                       paragraphs_count |-> paragraphs_count,
                       outcome |-> IF found THEN "updated" ELSE "inserted",
                       row |-> row]
    /\ UNCHANGED prev
    /\ ncalls' = ncalls + 1
    /\ UNCHANGED <<sess, assets, txAssets, texts, txTexts, pendingTexts,
                   oidCtr>>
    /\ UNCHANGED <<scrapeVars, fnVars, genVars>>

\* the rows of the table once the session's objects are written
FlushedArticles ==
    [k \in DOMAIN articles \cup DOMAIN txArticles.dirty
             \cup {r.id : r \in SeqRange(txArticles.new)} |->
        IF k \in DOMAIN txArticles.dirty THEN txArticles.dirty[k]
        ELSE IF k \in DOMAIN articles THEN articles[k]
        ELSE CHOOSE r \in SeqRange(txArticles.new) : r.id = k]

\* the primary key (models.py line 28) or the unique index of url (line 29)
\* refuses the rows of the flush
ArticleConstraintViolated ==
    \/ \E id \in UpsertIds : ArticleObjects(id) > 1
    \/ \E j, k \in DOMAIN FlushedArticles :
          j # k /\ FlushedArticles[j].url = FlushedArticles[k].url

\* db.commit(): flush, then commit; a refused flush rolls back
CommitArticles ==
    /\ sess = "open"
    /\ IF ArticleConstraintViolated
       THEN /\ sess' = "failed"
            /\ last' = [op |-> "commit", outcome |-> "IntegrityError"]
            /\ UNCHANGED articles
       ELSE /\ sess' = sess
            /\ articles' = FlushedArticles
            /\ last' = IF last.op = "upsert" THEN last
                       ELSE [op |-> "commit", outcome |-> "ok"]
    /\ UNCHANGED prev
    /\ txArticles' = NoArticleWork
    /\ UNCHANGED <<assets, txAssets, texts, txTexts, pendingTexts, oidCtr,
                   ncalls>>
    /\ UNCHANGED <<apiKey, genFiles, apiCalls, clock, gen, batch>>
    /\ UNCHANGED <<scrapeVars, fnVars>>

\* leaving "with SessionLocal() as db": what was not committed is dropped
CloseArticleSession ==
    /\ sess \in {"open", "failed"}
    /\ sess' = "closed"
    /\ txArticles' = NoArticleWork
    /\ last' = IF txArticles = NoArticleWork THEN last ELSE NoCall
    /\ UNCHANGED prev
    /\ UNCHANGED <<assets, txAssets, texts, txTexts, pendingTexts, oidCtr,
                   ncalls>>
    /\ UNCHANGED <<scrapeVars, fnVars, genVars>>

InitUpsert == ScrapeIdle /\ StoreIdle /\ FnIdle /\ GenIdle

NextUpsert ==
    \/ OpenSession
    \/ \E id \in UpsertIds, url \in UpsertUrls, title \in UpsertTitles,
          published_at \in UpsertDates, paragraphs_count \in UpsertCounts :
          CallUpsertArticle(id, url, title, published_at, paragraphs_count)
    \/ CommitArticles
    \/ CloseArticleSession

SpecUpsert == InitUpsert /\ [][NextUpsert]_vars

\* C23: after a call of upsert_article there is exactly one Article row
\* with the ID of the call, never more than one row with any ID, and the
\* row's title, url, paragraphs_count and published_at are the arguments
\* of the call.
C23_UpsertKeyedById ==
    /\ \A id \in UpsertIds : ArticleObjects(id) <= 1
    /\ last.op = "upsert"
       => /\ ArticleObjects(last.id) = 1
          /\ last.row.title = last.title
          /\ last.row.url = last.url
          /\ last.row.paragraphs_count = last.paragraphs_count
          /\ last.row.published_at = last.published_at

(***************************************************************************)
(* Failures of the text-to-image generation before its store step.         *)
(***************************************************************************)
\* C24: a generate_t2i_for_article call that meets a missing API key, a
\* failed request, an HTTP error or a response without the expected
\* structure raises to its caller, and it has written no file, created no
\* Asset row and left the flags of the articles as they were.
C24_FailureBeforeStoreStep ==
    (gen.op = "t2i" /\ gen.at \in {"no_key", "api_error"})
    => /\ gen.stage = "raised"
       /\ genFiles = gen.preFiles
       /\ assets = gen.preAssets /\ txAssets = {}
       /\ articles = gen.preArticles

\* the API refused the second request of a behaviour whose first
\* generation was committed
C24_Witness ==
    /\ gen.op = "t2i" /\ gen.at = "api_error" /\ gen.stage = "raised"
    /\ Len(apiCalls) = 2
    /\ assets # {} /\ genFiles # {}

(***************************************************************************)
(* The order of file writes and store commit in the two generations.       *)
(***************************************************************************)
\* C25: in a text-to-image and in an image-to-text generation every file
\* of the operation is written before its store transaction; no step
\* writes a file of an operation whose transaction is committed.
C25_FilesBeforeStore ==
    [][genFiles' # genFiles => ~gen'.committed]_vars

(***************************************************************************)
(* The "below" traversal started from an ID the allocator made             *)
(* (scraper.py _make_id, generation.py and generation_text.py _ids_below). *)
(***************************************************************************)
\* the indices next to 0 and those around the first index that is wider
\* than ID_PAD digits
AllocIndices == {k \in 1..MaxAllocIndex : k <= 60 \/ k >= 990}

InitBelowAlloc ==
    /\ arg \in [n : AllocIndices]
    /\ ret = <<>>
    /\ ScrapeIdle /\ StoreIdle /\ GenIdle

\* _ids_below(_make_id(n), n) of both modules
CallIdsBelowAllocated ==
    /\ ret = <<>>
    /\ ret' = [gen |-> _ids_below(_make_id(arg.n), arg.n),
               text |-> _ids_below_text(_make_id(arg.n), arg.n)]
    /\ UNCHANGED arg
    /\ UNCHANGED <<scrapeVars, storeVars, genVars>>

NextBelowAlloc == CallIdsBelowAllocated

SpecBelowAlloc == InitBelowAlloc /\ [][NextBelowAlloc]_vars

\* C26: for every index n >= 1 and every k in 1..n, the k-th element of
\* _ids_below(_make_id(n), n) is _make_id(n - k), in both modules.
C26_BelowNamesAllocatedIds ==
    ret # <<>> =>
        /\ Len(ret.gen) = arg.n /\ Len(ret.text) = arg.n
        /\ \A k \in 1..arg.n :
              /\ ret.gen[k] = _make_id(arg.n - k)
              /\ ret.text[k] = _make_id(arg.n - k)

(***************************************************************************)
(* The generation flags under every operation that writes the articles     *)
(* table: upsert_article and the two mark_article_* functions called in a  *)
(* session of the caller, and the two generations, which use sessions of   *)
(* their own.  The sessions follow one another.                            *)
(***************************************************************************)
\* crud.py mark_article_image_generated / mark_article_text_generated called
\* in the caller's session; flag names the column
CallMarkGenerated(id, flag) ==
    /\ sess = "open" /\ ncalls < MaxCalls
    /\ IF HasArticle(id)
       THEN /\ txArticles' =
                 [txArticles EXCEPT
                    !.dirty = [k \in DOMAIN @ \cup {id} |->
                       IF k # id THEN @[k]
                       ELSE IF flag = "image"
                       THEN [GetArticle(id) EXCEPT
                               !.has_image_generated = TRUE]
                       ELSE [GetArticle(id) EXCEPT
                               !.has_text_generated = TRUE]]]
            /\ last' = [op |-> "mark", id |-> id, outcome |-> "marked"]
       ELSE /\ last' = [op |-> "mark", id |-> id, outcome |-> "ValueError"]
            /\ UNCHANGED txArticles
    /\ UNCHANGED prev
    /\ ncalls' = ncalls + 1
    /\ UNCHANGED <<sess, assets, txAssets, texts, txTexts, pendingTexts,
                   oidCtr>>
    /\ UNCHANGED <<scrapeVars, fnVars, genVars>>

InitFlags ==
    /\ ScrapeIdle /\ StoreIdle /\ FnIdle
    /\ apiKey = TRUE
    /\ articles = <<>> /\ genFiles = {} /\ apiCalls = <<>> /\ clock = 0
    /\ gen = [op |-> "none"] /\ batch = [op |-> "none"]

\* the article the flag runs are about
FlagIds == {_make_id(1)}

NextFlags ==
    \/ GenDone /\ OpenSession
    \/ \E id \in FlagIds, url \in UpsertUrls :
          GenDone /\ CallUpsertArticle(id, url, "t1", None, 0)
    \/ \E id \in FlagIds, flag \in {"image", "text"} :
          GenDone /\ CallMarkGenerated(id, flag)
    \/ GenDone /\ CommitArticles
    \/ GenDone /\ CloseArticleSession
    \/ \E aid \in FlagIds, force \in BOOLEAN, fate \in T2IFates,
          sha \in GenShas :
          sess = "closed" /\ CallT2I(aid, force, fate, sha, clock)
    \/ T2IAsset \/ T2IMark \/ T2ICommit \/ T2IMeta \/ T2IStop
    \/ \E aid \in FlagIds, force \in BOOLEAN, fate \in I2TFates :
          sess = "closed" /\ CallI2T(aid, force, fate, clock)
    \/ I2TDb

SpecFlags == InitFlags /\ [][NextFlags]_vars

\* C27: has_image_generated and has_text_generated of an article, once
\* true, stay true in every step: of upsert_article, of a commit, of a
\* generation with or without force, whether it completes or fails.
C27_FlagsMonotonic ==
    [][\A a \in DOMAIN articles :
          /\ a \in DOMAIN articles'
          /\ articles[a].has_image_generated
                => articles'[a].has_image_generated
          /\ articles[a].has_text_generated
                => articles'[a].has_text_generated]_vars

\* the update of a flagged article by upsert_article has been committed
C27_Witness ==
    /\ sess = "open" /\ txArticles = NoArticleWork
    /\ last.op = "upsert" /\ last.outcome = "updated"
    /\ articles[last.id].url = last.url
    /\ articles[last.id].has_image_generated
    /\ gen.op = "t2i" /\ gen.stage = "done" /\ gen.aid = last.id


(***************************************************************************)
(* Dry runs of the batch operations.                                       *)
(***************************************************************************)
\* C28: with dry_run=True a batch call (generate_missing_images,
\* generate_next_images_below, generate_next_articles_below) makes no API
\* call and changes no file and no store row; it returns the list of the
\* ids it would process.
C28_DryRunChangesNothing ==
    [][(batch'.op \in BatchOps /\ batch'.dry_run)
       => /\ apiCalls' = apiCalls /\ genFiles' = genFiles
          /\ assets' = assets /\ texts' = texts /\ articles' = articles
          /\ batch'.stage = "returned" => batch'.result = batch'.items]_vars


(***************************************************************************)
(* The text rows read for the text-to-image prompt.                        *)
(***************************************************************************)
\* generation.py _load_article_body: the file of the newest TextRow of kind
\* original_text of the article; <<>> stands for the empty body
_load_article_body(rows, aid) ==
    LET mine == {r \in rows : r.article_id = aid /\ r.kind = "original_text"}
        row == CHOOSE r \in mine : \A q \in mine : q.oid <= r.oid
    IN  IF mine = {} THEN <<>> ELSE row.path

C30_SourceNeverGenerated ==
    (gen.op = "i2t" /\ gen.at # "has_text")
    => LET src == _get_image_anywhere(gen.preAssets, gen.preFiles, gen.aid)
       IN  /\ src # "generated_file"
           /\ src = None => (gen.stage = "skipped" /\ gen.at = "no_image")

====
